---- MODULE Spec2Model ----
(***************************************************************************)
(* Sales analytics application: record normalizer, aggregation engine,    *)
(* AI decision call with model fallback, the App load lifecycle, the       *)
(* dashboards' filtered views and the chat panel.                          *)
(*                                                                         *)
(* Strings are TLA+ strings handled with Len / SubSeq / \o.  A CJK         *)
(* character of the source is written as one brace-delimited token         *)
(* holding its code point in lowercase hex ("{570b}{969b}" is U+570B       *)
(* U+969B), so that substring tests agree with the source's.               *)
(*                                                                         *)
(* Numbers are integers.  Shares (percentages) are kept exactly, as a      *)
(* numerator over the positive denominator totalSystemAmount; IEEE-754     *)
(* rounding of the source's doubles is not represented.                    *)
(***************************************************************************)
EXTENDS Integers, Sequences, FiniteSets, TLC

VARIABLES
    \* App (src/App.tsx)
    isLoading, analysisResult, rawRecords, error, runs,
    \* AnalysisDashboard filter state
    filterCategory, filterBrand, filterABC,
    \* aggregation engine called on a record set
    data, views,
    \* normalizeData called on raw rows
    rawData, normalized,
    \* detectBrand called on a product name
    productName, brandLabel,
    \* AIChatPanel (src/components/AIChatPanel.tsx): its state hooks and the
    \* askSalesQuestion requests it has sent
    chat

vars == <<isLoading, analysisResult, rawRecords, error, runs,
          filterCategory, filterBrand, filterABC,
          data, views, rawData, normalized, productName, brandLabel, chat>>

appVars == <<isLoading, analysisResult, rawRecords, error, runs>>
dashVars == <<filterCategory, filterBrand, filterABC>>
aggVars == <<data, views>>
normVars == <<rawData, normalized>>
brandVars == <<productName, brandLabel>>
chatVars == <<chat>>

\* a value not yet computed / JavaScript null
NULL == "<null>"

-----------------------------------------------------------------------------
(* String helpers: String.prototype.includes / toLowerCase                  *)

\* s.includes(k)
Includes(s, k) ==
    \E i \in 0..(Len(s) - Len(k)) : SubSeq(s, i + 1, i + Len(k)) = k

UpperAlpha == "ABCDEFGHIJKLMNOPQRSTUVWXYZ"
LowerAlpha == "abcdefghijklmnopqrstuvwxyz"

LowerOf == [i \in 1..Len(UpperAlpha) |-> SubSeq(LowerAlpha, i, i)]
UpperIndex == [c \in {SubSeq(UpperAlpha, i, i) : i \in 1..Len(UpperAlpha)} |->
                  CHOOSE i \in 1..Len(UpperAlpha) : SubSeq(UpperAlpha, i, i) = c]

LowerChar(c) == IF c \in DOMAIN UpperIndex THEN LowerOf[UpperIndex[c]] ELSE c

RECURSIVE ToLowerCase(_)
ToLowerCase(s) ==
    IF s = "" THEN ""
    ELSE LowerChar(SubSeq(s, 1, 1)) \o ToLowerCase(SubSeq(s, 2, Len(s)))

-----------------------------------------------------------------------------
(* detectBrand (src/utils/dataProcessor.ts:11-33)                           *)

OtherBrand == "Other {5176}{4ed6}"

\* The keyword tests of detectBrand in source order: label, keywords.
BrandTests ==
    << [label |-> "Panasonic {570b}{969b}", keywords |-> {"panasonic", "{570b}{969b}"}],
       [label |-> "LG {6a02}{91d1}", keywords |-> {"lg"}],
       [label |-> "Samsung {4e09}{661f}", keywords |-> {"samsung", "{4e09}{661f}"}],
       [label |-> "Sony", keywords |-> {"sony", "{7d22}{5c3c}"}],
       [label |-> "Hitachi {65e5}{7acb}", keywords |-> {"hitachi", "{65e5}{7acb}"}],
       [label |-> "Toshiba {6771}{829d}", keywords |-> {"toshiba", "{6771}{829d}"}],
       [label |-> "Sharp {590f}{666e}", keywords |-> {"sharp", "{590f}{666e}"}],
       [label |-> "TECO {6771}{5143}", keywords |-> {"teco", "{6771}{5143}"}],
       [label |-> "SAMPO {8072}{5bf6}", keywords |-> {"sampo", "{8072}{5bf6}"}],
       [label |-> "HERAN {79be}{806f}", keywords |-> {"heran", "{79be}{806f}"}],
       [label |-> "Sanlux {4e09}{6d0b}", keywords |-> {"sanlux", "{4e09}{6d0b}"}],
       [label |-> "Sakura {6afb}{82b1}", keywords |-> {"sakura", "{6afb}{82b1}"}],
       [label |-> "Dyson", keywords |-> {"dyson"}],
       [label |-> "Philips", keywords |-> {"philips", "{98db}{5229}{6d66}"}],
       [label |-> "Tatung {5927}{540c}", keywords |-> {"tatung", "{5927}{540c}"}],
       [label |-> "Whirlpool", keywords |-> {"whirlpool", "{60e0}{800c}{6d66}"}],
       [label |-> "Daikin {5927}{91d1}", keywords |-> {"daikin", "{5927}{91d1}"}] >>

\* faulty variant: the last matching test wins instead of the first
DetectBrandLastMatch(name) ==
    LET n == ToLowerCase(name)
        hit(i) == \E k \in BrandTests[i].keywords : Includes(n, k)
    IN  IF \E i \in 1..Len(BrandTests) : hit(i)
        THEN BrandTests[CHOOSE i \in 1..Len(BrandTests) :
                            hit(i) /\ \A j \in (i + 1)..Len(BrandTests) : ~hit(j)].label
        ELSE OtherBrand

DetectBrand(name) ==
    LET n == ToLowerCase(name)
    IN  IF Includes(n, "panasonic") \/ Includes(n, "{570b}{969b}") THEN "Panasonic {570b}{969b}"
        ELSE IF Includes(n, "lg") THEN "LG {6a02}{91d1}"
        ELSE IF Includes(n, "samsung") \/ Includes(n, "{4e09}{661f}") THEN "Samsung {4e09}{661f}"
        ELSE IF Includes(n, "sony") \/ Includes(n, "{7d22}{5c3c}") THEN "Sony"
        ELSE IF Includes(n, "hitachi") \/ Includes(n, "{65e5}{7acb}") THEN "Hitachi {65e5}{7acb}"
        ELSE IF Includes(n, "toshiba") \/ Includes(n, "{6771}{829d}") THEN "Toshiba {6771}{829d}"
        ELSE IF Includes(n, "sharp") \/ Includes(n, "{590f}{666e}") THEN "Sharp {590f}{666e}"
        ELSE IF Includes(n, "teco") \/ Includes(n, "{6771}{5143}") THEN "TECO {6771}{5143}"
        ELSE IF Includes(n, "sampo") \/ Includes(n, "{8072}{5bf6}") THEN "SAMPO {8072}{5bf6}"
        ELSE IF Includes(n, "heran") \/ Includes(n, "{79be}{806f}") THEN "HERAN {79be}{806f}"
        ELSE IF Includes(n, "sanlux") \/ Includes(n, "{4e09}{6d0b}") THEN "Sanlux {4e09}{6d0b}"
        ELSE IF Includes(n, "sakura") \/ Includes(n, "{6afb}{82b1}") THEN "Sakura {6afb}{82b1}"
        ELSE IF Includes(n, "dyson") THEN "Dyson"
        ELSE IF Includes(n, "philips") \/ Includes(n, "{98db}{5229}{6d66}") THEN "Philips"
        ELSE IF Includes(n, "tatung") \/ Includes(n, "{5927}{540c}") THEN "Tatung {5927}{540c}"
        ELSE IF Includes(n, "whirlpool") \/ Includes(n, "{60e0}{800c}{6d66}") THEN "Whirlpool"
        ELSE IF Includes(n, "daikin") \/ Includes(n, "{5927}{91d1}") THEN "Daikin {5927}{91d1}"
        ELSE OtherBrand

-----------------------------------------------------------------------------
(* Array helpers: map / filter / reduce / Map insertion order / sort        *)

\* an array literal: the elements are computed once and held
ArrayOf(f) == SelectSeq(f, LAMBDA x : TRUE)

Last(s) == s[Len(s)]
Front(s) == SubSeq(s, 1, Len(s) - 1)

RECURSIVE SumSeq(_)
SumSeq(s) == IF s = <<>> THEN 0 ELSE SumSeq(Front(s)) + Last(s)

\* keys of a Map / Set filled in the order of ks (first insertion keeps its place)
RECURSIVE InsertionOrder(_)
InsertionOrder(ks) ==
    IF ks = <<>> THEN <<>>
    ELSE LET init == InsertionOrder(Front(ks))
         IN  IF \E i \in 1..Len(init) : init[i] = Last(ks)
             THEN init ELSE Append(init, Last(ks))

\* Array.prototype.sort(cmp): stable; cmp[i, j] is the comparator's result on
\* the elements i and j; i goes before j when cmp[i, j] < 0, and when
\* cmp[i, j] = 0 and i stood before j
SortBy(array, cmp) ==
    LET s == ArrayOf(array)
        before(j, i) == cmp[j, i] < 0 \/ (cmp[j, i] = 0 /\ j < i)
        rank == ArrayOf([i \in 1..Len(s) |->
                            Cardinality({j \in 1..Len(s) : before(j, i)}) + 1])
    IN  ArrayOf([p \in 1..Len(s) |-> s[CHOOSE i \in 1..Len(s) : rank[i] = p]])

\* Math.round(a / b) for b > 0: halves round towards +Infinity
RoundDiv(a, b) == (2 * a + b) \div (2 * b)

\* a percentage kept exactly: num / den with den > 0
Pct(part, total) ==
    IF total > 0 THEN [num |-> part * 100, den |-> total]
    ELSE [num |-> 0, den |-> 1]

\* r <= n for a percentage r and an integer n
PctLE(r, n) == r.num <= n * r.den

-----------------------------------------------------------------------------
(* String comparison                                                        *)

\* UTF-16 code unit order of the characters that occur in dates
CodeUnitOrder == "-0123456789QUknow"

\* ICU root collation order of the same characters: punctuation, digits, letters
CollationOrder == "-0123456789knoQUw"

CharRank(c, order) ==
    CHOOSE i \in 1..Len(order) : SubSeq(order, i, i) = c

\* negative, zero or positive as a sorts before, equal to or after b
RECURSIVE CompareIn(_, _, _)
CompareIn(a, b, order) ==
    IF a = "" /\ b = "" THEN 0
    ELSE IF a = "" THEN -1
    ELSE IF b = "" THEN 1
    ELSE LET ra == CharRank(SubSeq(a, 1, 1), order)
             rb == CharRank(SubSeq(b, 1, 1), order)
         IN  IF ra # rb THEN ra - rb
             ELSE CompareIn(SubSeq(a, 2, Len(a)), SubSeq(b, 2, Len(b)), order)

\* a.localeCompare(b)
LocaleCompare(a, b) == CompareIn(a, b, CollationOrder)

\* the relational operators and the default sort() on strings
CodeUnitCompare(a, b) == CompareIn(a, b, CodeUnitOrder)

-----------------------------------------------------------------------------
(* Aggregation engine (src/utils/dataProcessor.ts)                          *)
(* A SalesRecord is [Date, Category, Product, Quantity, Amount, Cost,       *)
(* Brand, isGift]; Cost is [kind, n], kind one of undefined, nan, num.        *)

\* enum ABCClass (src/types.ts:14-18)
ClassA == "A ({6838}{5fc3})"
ClassB == "B ({5e38}{898f})"
ClassC == "C ({9577}{5c3e})"

ThresholdA == 80
ThresholdB == 95

Amounts(d) == [i \in 1..Len(d) |-> d[i].Amount]
Quantities(d) == [i \in 1..Len(d) |-> d[i].Quantity]

\* faulty variant: class A is cut below the threshold instead of at it
AbcClassStrict(cumulative) ==
    IF cumulative.num < ThresholdA * cumulative.den THEN ClassA
    ELSE IF PctLE(cumulative, ThresholdB) THEN ClassB
    ELSE ClassC

\* faulty variant: the tail class is given before the middle class
AbcClassTailFirst(cumulative) ==
    IF PctLE(cumulative, ThresholdA) THEN ClassA
    ELSE IF PctLE(cumulative, ThresholdB) THEN ClassC
    ELSE ClassB

\* analyzePerformance step 4: the class of a running cumulative share
AbcClass(cumulative) ==
    IF PctLE(cumulative, ThresholdA) THEN ClassA
    ELSE IF PctLE(cumulative, ThresholdB) THEN ClassB
    ELSE ClassC

\* faulty variant: the quotient is truncated instead of rounded
AveragePriceFloor(totalAmount, totalQty) ==
    IF totalQty > 0 THEN totalAmount \div totalQty ELSE 0

\* analyzePerformance step 2: averagePrice
AveragePrice(totalAmount, totalQty) ==
    IF totalQty > 0 THEN RoundDiv(totalAmount, totalQty) ELSE 0

\* analyzePerformance step 1: one entry per product, in first-seen order
GroupByProduct(d) ==
    LET products == InsertionOrder([i \in 1..Len(d) |-> d[i].Product])
    IN  ArrayOf([k \in 1..Len(products) |->
            LET rows == SelectSeq(d, LAMBDA r : r.Product = products[k])
            IN  [productName |-> products[k],
                 category |-> rows[1].Category,
                 totalQty |-> SumSeq(Quantities(rows)),
                 totalAmount |-> SumSeq(Amounts(rows)),
                 salesFrequency |-> Len(rows)]])

\* analyzePerformance step 3: the comparator of the sort
ByRevenueDesc(a, b) == b.totalAmount - a.totalAmount

\* velocityScore = min(100, totalQty * 1.5 + salesFrequency * 0.5), in halves
VelocityScoreX2(item) ==
    LET v == 3 * item.totalQty + item.salesFrequency
    IN  IF v < 200 THEN v ELSE 200

AnalyzePerformance(d) ==
    LET totalSystemAmount == SumSeq(Amounts(d))
        grouped == GroupByProduct(d)
        result == ArrayOf([k \in 1..Len(grouped) |->
                     [productName |-> grouped[k].productName,
                      category |-> grouped[k].category,
                      totalQty |-> grouped[k].totalQty,
                      totalAmount |-> grouped[k].totalAmount,
                      salesFrequency |-> grouped[k].salesFrequency,
                      qtyShare |-> 0,
                      amountShare |-> Pct(grouped[k].totalAmount, totalSystemAmount),
                      averagePrice |-> AveragePrice(grouped[k].totalAmount,
                                                    grouped[k].totalQty),
                      velocityScoreX2 |-> VelocityScoreX2(grouped[k])]])
        sorted == SortBy(result, [i, j \in 1..Len(result) |->
                                     ByRevenueDesc(result[i], result[j])])
        currentCumulative(k) ==
            [num |-> SumSeq([i \in 1..k |-> sorted[i].amountShare.num]),
             den |-> IF totalSystemAmount > 0 THEN totalSystemAmount ELSE 1]
    IN  ArrayOf([k \in 1..Len(sorted) |->
            [productName |-> sorted[k].productName,
             category |-> sorted[k].category,
             totalQty |-> sorted[k].totalQty,
             totalAmount |-> sorted[k].totalAmount,
             salesFrequency |-> sorted[k].salesFrequency,
             qtyShare |-> sorted[k].qtyShare,
             amountShare |-> sorted[k].amountShare,
             averagePrice |-> sorted[k].averagePrice,
             velocityScoreX2 |-> sorted[k].velocityScoreX2,
             cumulativeShare |-> currentCumulative(k),
             abcClass |-> AbcClass(currentCumulative(k))]])

\* analyzeSeasonality: the month key of a date string
MonthKey(date) == IF Len(date) >= 7 THEN SubSeq(date, 1, 7) ELSE date

Digits == "0123456789"

\* a canonical array index ("0", "7", "42"): such property names are
\* enumerated first, in ascending numeric order
IsIndexKey(s) ==
    /\ Len(s) >= 1
    /\ \A i \in 1..Len(s) : Includes(Digits, SubSeq(s, i, i))
    /\ (Len(s) > 1 => SubSeq(s, 1, 1) # "0")

RECURSIVE IndexValue(_)
IndexValue(s) ==
    IF s = "" THEN 0
    ELSE 10 * IndexValue(SubSeq(s, 1, Len(s) - 1))
         + (CharRank(SubSeq(s, Len(s), Len(s)), Digits) - 1)

\* Object.entries order of an object whose keys were set in the order of ks
OwnKeys(ks) ==
    LET ins == InsertionOrder(ks)
        ints == SelectSeq(ins, IsIndexKey)
        strs == SelectSeq(ins, LAMBDA s : ~IsIndexKey(s))
    IN  SortBy(ints, [i, j \in 1..Len(ints) |->
                         IndexValue(ints[i]) - IndexValue(ints[j])]) \o strs

AnalyzeSeasonality(d) ==
    LET months == InsertionOrder([i \in 1..Len(d) |-> MonthKey(d[i].Date)])
        entry(m) ==
            LET rows == SelectSeq(d, LAMBDA r : MonthKey(r.Date) = m)
                cats == OwnKeys([i \in 1..Len(rows) |-> rows[i].Category])
                categories ==
                    ArrayOf([k \in 1..Len(cats) |->
                        [name |-> cats[k],
                         qty |-> SumSeq(Quantities(
                                    SelectSeq(rows, LAMBDA r : r.Category = cats[k])))]])
                ranked == SortBy(categories, [i, j \in 1..Len(categories) |->
                                                 categories[j].qty - categories[i].qty])
            IN  [month |-> m,
                 sales |-> SumSeq(Quantities(rows)),
                 revenue |-> SumSeq(Amounts(rows)),
                 topCategory |-> IF ranked # <<>> THEN ranked[1].name ELSE "None"]
        entries == ArrayOf([k \in 1..Len(months) |-> entry(months[k])])
    IN  SortBy(entries, [i, j \in 1..Len(entries) |->
                            LocaleCompare(entries[i].month, entries[j].month)])

BandOrder ==
    << "{5e73}{50f9} (<3k)",
       "{5165}{9580} (3k-10k)",
       "{4e2d}{968e} (10k-25k)",
       "{9ad8}{968e} (25k-40k)",
       "{65d7}{8266} (>40k)" >>

Band1 == 3000
Band2 == 10000
Band3 == 25000
Band4 == 40000

\* faulty variant: a price on a boundary falls into the band below it
PriceBandInclusive(r) ==
    LET q == IF r.Quantity > 0 THEN r.Quantity ELSE 1
        a == IF r.Quantity > 0 THEN r.Amount ELSE 0
    IN  IF a <= Band1 * q THEN BandOrder[1]
        ELSE IF a <= Band2 * q THEN BandOrder[2]
        ELSE IF a <= Band3 * q THEN BandOrder[3]
        ELSE IF a <= Band4 * q THEN BandOrder[4]
        ELSE BandOrder[5]

\* analyzePriceBands: the band of a record; price = Amount / Quantity, or 0
PriceBand(r) ==
    LET q == IF r.Quantity > 0 THEN r.Quantity ELSE 1
        a == IF r.Quantity > 0 THEN r.Amount ELSE 0
    IN  IF a < Band1 * q THEN BandOrder[1]
        ELSE IF a < Band2 * q THEN BandOrder[2]
        ELSE IF a < Band3 * q THEN BandOrder[3]
        ELSE IF a < Band4 * q THEN BandOrder[4]
        ELSE BandOrder[5]

BandIndex(range) == CHOOSE i \in 1..Len(BandOrder) : BandOrder[i] = range

\* faulty variant: count counts the rows of the band
BandCountRows(rows) == Len(rows)

\* b.count += row.Quantity, over the rows of one band
BandCount(rows) == SumSeq(Quantities(rows))

AnalyzePriceBands(d) ==
    LET totalRev == SumSeq(Amounts(d))
        bands == InsertionOrder([i \in 1..Len(d) |-> PriceBand(d[i])])
        entry(b) ==
            LET rows == SelectSeq(d, LAMBDA r : PriceBand(r) = b)
            IN  [range |-> b,
                 salesCount |-> BandCount(rows),
                 revenue |-> SumSeq(Amounts(rows)),
                 percent |-> Pct(SumSeq(Amounts(rows)), totalRev)]
        entries == ArrayOf([k \in 1..Len(bands) |-> entry(bands[k])])
    IN  SortBy(entries, [i, j \in 1..Len(entries) |->
                            BandIndex(entries[i].range) - BandIndex(entries[j].range)])

AnalyzeBrands(d) ==
    LET totalRev == SumSeq(Amounts(d))
        brands == InsertionOrder([i \in 1..Len(d) |-> d[i].Brand])
        entry(b) ==
            LET rows == SelectSeq(d, LAMBDA r : r.Brand = b)
            IN  [brand |-> b,
                 revenue |-> SumSeq(Amounts(rows)),
                 salesCount |-> SumSeq(Quantities(rows)),
                 percentage |-> Pct(SumSeq(Amounts(rows)), totalRev)]
        entries == ArrayOf([k \in 1..Len(brands) |-> entry(brands[k])])
    IN  SortBy(entries, [i, j \in 1..Len(entries) |->
                            entries[j].revenue - entries[i].revenue])

\* faulty variant: orders counts the units of the day
OrdersByQuantity(rows) == SumSeq(Quantities(rows))

\* d.orders += 1, over the rows of one day
Orders(rows) == Len(rows)

AnalyzeDailyTrend(d) ==
    LET days == InsertionOrder([i \in 1..Len(d) |-> d[i].Date])
        entry(day) ==
            LET rows == SelectSeq(d, LAMBDA r : r.Date = day)
            IN  [date |-> day,
                 revenue |-> SumSeq(Amounts(rows)),
                 orders |-> Orders(rows)]
        entries == ArrayOf([k \in 1..Len(days) |-> entry(days[k])])
    IN  SortBy(entries, [i, j \in 1..Len(entries) |->
                            LocaleCompare(entries[i].date, entries[j].date)])

-----------------------------------------------------------------------------
(* Record construction as normalizeData leaves it                            *)

GiftKeywords ==
    {"{8d08}", "{8d08}{54c1}", "{79ae}", "{9644}{8d08}", "{52a0}{8d08}",
     "{9001}", "{514d}{8cbb}"}

\* detectGift
DetectGift(name, amount) ==
    IF amount = 0 THEN TRUE
    ELSE \E k \in GiftKeywords : Includes(ToLowerCase(name), k)

\* the object literal returned for one row
SalesRecord(date, category, product, qty, amount, cost) ==
    [Date |-> date, Category |-> category, Product |-> product,
     Quantity |-> qty, Amount |-> amount, Cost |-> cost,
     Brand |-> DetectBrand(product), isGift |-> DetectGift(product, amount)]

\* faulty variant: the output filter keeps every row
KeepAll(r) == TRUE

\* the output filter of normalizeData
KeepRecord(r) == r.Quantity > 0 \/ r.Amount > 0

-----------------------------------------------------------------------------
(* normalizeData (src/utils/dataProcessor.ts:51-99)                         *)
(* A raw row is the sequence of its cells [key, val] in key order; a value  *)
(* is [t |-> "num", n, s], [t |-> "str", n, s] or, for no cell, JsNull.     *)

JsNull == [t |-> "null", n |-> 0, s |-> ""]
JsNum(n) == [t |-> "num", n |-> n, s |-> ""]
JsStr(s) == [t |-> "str", n |-> 0, s |-> s]

UnknownProduct == "{672a}{77e5}{5546}{54c1}"
Uncategorized == "{672a}{5206}{985e}"
UnknownDate == "Unknown"

DatePatterns == << "date", "{65e5}{671f}", "{6642}{9593}", "month", "day" >>
CategoryPatterns == << "category", "cat", "{985e}{5225}", "{54c1}{985e}", "{90e8}{9580}", "{985e}{578b}" >>
ProductPatterns == << "product", "name", "model", "{5546}{54c1}", "{578b}{865f}", "{540d}{7a31}", "{54c1}{540d}" >>
QtyPatterns == << "qty", "quantity", "count", "{6578}{91cf}", "{92b7}{91cf}", "sales_qty" >>
AmountPatterns == << "amount", "price", "revenue", "{91d1}{984d}", "{552e}{50f9}", "{7e3d}{50f9}", "sales_amt", "{71df}{696d}{984d}" >>
CostPatterns == << "cost", "{6210}{672c}", "{9032}{50f9}" >>

\* patterns.some(p => k.toLowerCase().includes(p.toLowerCase()))
KeyMatches(k, patterns) ==
    LET lower == ToLowerCase(k)
    IN  \E i \in 1..Len(patterns) : Includes(lower, ToLowerCase(patterns[i]))

\* keys.find(...) from position i on: the index of the first matching key, or 0
RECURSIVE FindKey(_, _, _)
FindKey(row, patterns, i) ==
    IF i > Len(row) THEN 0
    ELSE IF KeyMatches(row[i].key, patterns) THEN i
    ELSE FindKey(row, patterns, i + 1)

\* getVal: the value under the first matching key, or undefined
GetVal(row, patterns) ==
    LET i == FindKey(row, patterns, 1)
    IN  IF i = 0 THEN JsNull ELSE row[i].val

IsDigits(s) ==
    Len(s) >= 1 /\ \A i \in 1..Len(s) : Includes(Digits, SubSeq(s, i, i))

\* Number(v) for a null, an integer or a string of an optionally signed
\* integer (anything else is NaN); the empty string is 0
ToNumber(v) ==
    IF v.t = "null" THEN [nan |-> FALSE, n |-> 0]
    ELSE IF v.t = "num" THEN [nan |-> FALSE, n |-> v.n]
    ELSE IF v.s = "" THEN [nan |-> FALSE, n |-> 0]
    ELSE IF IsDigits(v.s) THEN [nan |-> FALSE, n |-> IndexValue(v.s)]
    ELSE IF SubSeq(v.s, 1, 1) = "-" /\ IsDigits(SubSeq(v.s, 2, Len(v.s)))
         THEN [nan |-> FALSE, n |-> 0 - IndexValue(SubSeq(v.s, 2, Len(v.s)))]
    ELSE [nan |-> TRUE, n |-> 0]

\* Number(v) || 0
NumberOrZero(v) == IF ToNumber(v).nan THEN 0 ELSE ToNumber(v).n

\* the truthiness of a value: null, "", 0 are falsy
Truthy(v) ==
    \/ v.t = "num" /\ v.n # 0
    \/ v.t = "str" /\ v.s # ""

RECURSIVE NatToString(_)
NatToString(n) ==
    IF n < 10 THEN SubSeq(Digits, n + 1, n + 1)
    ELSE NatToString(n \div 10) \o SubSeq(Digits, (n % 10) + 1, (n % 10) + 1)

\* String(v) of a number or string
JsString(v) ==
    IF v.t = "str" THEN v.s
    ELSE IF v.n < 0 THEN "-" \o NatToString(0 - v.n)
    ELSE NatToString(v.n)

\* String(v || fallback)
StringOr(v, fallback) == IF Truthy(v) THEN JsString(v) ELSE fallback

RECURSIVE PadStart(_, _)
PadStart(s, width) == IF Len(s) >= width THEN s ELSE PadStart("0" \o s, width)

\* the civil date of a day count from 1970-01-01 (proleptic Gregorian)
CivilFromDays(days) ==
    LET z == days + 719468
        era == z \div 146097
        doe == z - era * 146097
        yoe == (doe - doe \div 1460 + doe \div 36524 - doe \div 146096) \div 365
        doy == doe - (365 * yoe + yoe \div 4 - yoe \div 100)
        mp == (5 * doy + 2) \div 153
        d == doy - (153 * mp + 2) \div 5 + 1
        m == IF mp < 10 THEN mp + 3 ELSE mp - 9
    IN  [y |-> yoe + era * 400 + (IF m <= 2 THEN 1 ELSE 0), m |-> m, d |-> d]

DaysFromCivil(y0, m, d) ==
    LET y == IF m <= 2 THEN y0 - 1 ELSE y0
        era == y \div 400
        yoe == y - era * 400
        doy == (153 * (IF m > 2 THEN m - 3 ELSE m + 9) + 2) \div 5 + d - 1
        doe == yoe * 365 + yoe \div 4 - yoe \div 100 + doy
    IN  era * 146097 + doe - 719468

\* date.toISOString().slice(0, 10): years outside 0..9999 are written with a
\* sign and six digits
IsoDate10(days) ==
    LET c == CivilFromDays(days)
        year == IF c.y >= 0 /\ c.y <= 9999 THEN PadStart(NatToString(c.y), 4)
                ELSE IF c.y < 0 THEN "-" \o PadStart(NatToString(0 - c.y), 6)
                ELSE "+" \o PadStart(NatToString(c.y), 6)
        full == year \o "-" \o PadStart(NatToString(c.m), 2)
                     \o "-" \o PadStart(NatToString(c.d), 2)
    IN  SubSeq(full, 1, 10)

ExcelEpochOffset == 25569
MaxTimeDays == 100000000

\* a time value is valid within 8.64e15 ms, that is 1e8 days, of the epoch
ValidTimeDays(days) == days >= 0 - MaxTimeDays /\ days <= MaxTimeDays

DaysInMonth(y, m) ==
    IF m = 2 THEN (IF (y % 4 = 0 /\ y % 100 # 0) \/ y % 400 = 0 THEN 29 ELSE 28)
    ELSE IF m \in {4, 6, 9, 11} THEN 30 ELSE 31

\* new Date(s) for a string: a calendar date written YYYY-MM-DD is that day at
\* 00:00 UTC; the other strings of the model are not dates (NaN)
ParseDate(s) ==
    IF /\ Len(s) = 10
       /\ SubSeq(s, 5, 5) = "-" /\ SubSeq(s, 8, 8) = "-"
       /\ IsDigits(SubSeq(s, 1, 4)) /\ IsDigits(SubSeq(s, 6, 7))
       /\ IsDigits(SubSeq(s, 9, 10))
    THEN LET y == IndexValue(SubSeq(s, 1, 4))
             m == IndexValue(SubSeq(s, 6, 7))
             d == IndexValue(SubSeq(s, 9, 10))
         IN  IF m >= 1 /\ m <= 12 /\ d >= 1 /\ d <= DaysInMonth(y, m)
             THEN [nan |-> FALSE, days |-> DaysFromCivil(y, m, d)]
             ELSE [nan |-> TRUE, days |-> 0]
    ELSE [nan |-> TRUE, days |-> 0]

\* the date normalization of one row: [threw, dateStr]
NormalizeDate(dateVal) ==
    IF ~Truthy(dateVal) THEN [threw |-> FALSE, dateStr |-> UnknownDate]
    ELSE IF dateVal.t = "num"
         THEN IF ValidTimeDays(dateVal.n - ExcelEpochOffset)
              THEN [threw |-> FALSE, dateStr |-> IsoDate10(dateVal.n - ExcelEpochOffset)]
              ELSE [threw |-> TRUE, dateStr |-> ""]   \* RangeError: Invalid time value
    ELSE IF ~ParseDate(dateVal.s).nan
         THEN [threw |-> FALSE, dateStr |-> IsoDate10(ParseDate(dateVal.s).days)]
    ELSE [threw |-> FALSE, dateStr |-> dateVal.s]

CostUndefined == [kind |-> "undefined", n |-> 0]

\* costVal ? Number(costVal) : undefined
NormalizeCost(costVal) ==
    IF ~Truthy(costVal) THEN CostUndefined
    ELSE IF ToNumber(costVal).nan THEN [kind |-> "nan", n |-> 0]
    ELSE [kind |-> "num", n |-> ToNumber(costVal).n]

\* the callback of rawData.map: [threw, record]
NormalizeRow(row) ==
    LET dateVal == GetVal(row, DatePatterns)
        catVal == GetVal(row, CategoryPatterns)
        prodVal == GetVal(row, ProductPatterns)
        qtyVal == GetVal(row, QtyPatterns)
        amtVal == GetVal(row, AmountPatterns)
        costVal == GetVal(row, CostPatterns)
        date == NormalizeDate(dateVal)
    IN  [threw |-> date.threw,
         record |-> SalesRecord(date.dateStr,
                                StringOr(catVal, Uncategorized),
                                StringOr(prodVal, UnknownProduct),
                                NumberOrZero(qtyVal),
                                NumberOrZero(amtVal),
                                NormalizeCost(costVal))]

\* normalizeData: [status |-> "returned" | "threw", records]
NormalizeData(rows) ==
    LET mapped == ArrayOf([i \in 1..Len(rows) |-> NormalizeRow(rows[i])])
    IN  IF \E i \in 1..Len(rows) : mapped[i].threw
        THEN [status |-> "threw", records |-> <<>>]
        ELSE [status |-> "returned",
              records |-> SelectSeq([i \in 1..Len(rows) |-> mapped[i].record],
                                    KeepRecord)]

-----------------------------------------------------------------------------
(* The deduplicating normalizeData (src/unnamed/part_002:34-90), called by  *)
(* processFiles on the rows of all the uploaded files                        *)

\* the object literal returned for one row: it has no isGift field
MergedRecord(n) ==
    [threw |-> n.threw,
     record |-> [Date |-> n.record.Date, Category |-> n.record.Category,
                 Product |-> n.record.Product, Quantity |-> n.record.Quantity,
                 Amount |-> n.record.Amount, Cost |-> n.record.Cost,
                 Brand |-> n.record.Brand]]

\* the callback of rawData.map up to the deduplication key: the same
\* cleaning as above
NormalizeRowMerged(row) == MergedRecord(NormalizeRow(row))

\* `${dateStr}|${productName}|${qty}|${amount}`
RowKey(r) ==
    r.Date \o "|" \o r.Product \o "|" \o JsString(JsNum(r.Quantity))
           \o "|" \o JsString(JsNum(r.Amount))

\* faulty variant: no key is ever found in seenRows
SeenNever(seenRows, rowKey) == FALSE

\* seenRows.has(rowKey)
Seen(seenRows, rowKey) == rowKey \in seenRows

\* the entry of rawData.map for one cleaned row: <<>> for null (a
\* duplicate) and <<record>> otherwise; seenRows holds the keys of the rows
\* before it
MapEntry(seenRows, record) ==
    IF Seen(seenRows, RowKey(record)) THEN <<>> ELSE << record >>

\* the rest of normalizeData on the cleaned rows: null for the rows whose
\* key was seen, then the filter
Deduplicate(clean) ==
    LET keys == ArrayOf([i \in 1..Len(clean) |-> RowKey(clean[i].record)])
        mapped == ArrayOf([i \in 1..Len(clean) |->
                     MapEntry({keys[j] : j \in 1..(i - 1)}, clean[i].record)])
        kept == SelectSeq(mapped, LAMBDA r : r # <<>> /\ KeepRecord(r[1]))
    IN  IF \E i \in 1..Len(clean) : clean[i].threw
        THEN [status |-> "threw", records |-> <<>>]
        ELSE [status |-> "returned",
              records |-> ArrayOf([k \in 1..Len(kept) |-> kept[k][1]])]

\* normalizeData with deduplication: [status |-> "returned" | "threw", records]
NormalizeDataMerged(rows) ==
    Deduplicate(ArrayOf([i \in 1..Len(rows) |-> NormalizeRowMerged(rows[i])]))

-----------------------------------------------------------------------------
(* calculateInventoryMetrics (src/utils/dataProcessor.ts:293-341)           *)
(* Quantities are integers, so every quotient is an exact fraction; the     *)
(* fields rounded to two decimals are held in hundredths.                   *)

DefaultLeadTimeDays == 7
DemandDays == 30
\* Z = 1.65, in hundredths
ZHundredths == 165

\* Math.ceil(a / b) for b > 0
CeilDiv(a, b) == -((-a) \div b)

\* the least n >= from with den * n^2 >= num, searched in blocks of step
\* numbers that are halved once a block holds it
RECURSIVE LeastSquare(_, _, _, _)
LeastSquare(from, step, num, den) ==
    IF den * (from + step - 1) * (from + step - 1) < num
    THEN LeastSquare(from + step, step, num, den)
    ELSE IF step = 1 THEN from
    ELSE LeastSquare(from, step \div 2, num, den)

\* Math.ceil(Math.sqrt(num / den)) for num >= 0 and den > 0
CeilSqrt(num, den) == LeastSquare(0, 64, num, den)

\* Math.round(Math.sqrt(num / den)) for num >= 0 and den > 0: the least m
\* with sqrt(num / den) < m + 1/2, that is with (2m + 1)^2 * den > 4 * num
RoundSqrt(num, den) == LeastSquare(1, 64, 4 * num + 1, den) \div 2

\* const totalDays = dates.length || 1
TotalDays(d) ==
    LET dates == InsertionOrder([i \in 1..Len(d) |-> d[i].Date])
    IN  IF Len(dates) = 0 THEN 1 ELSE Len(dates)

\* the sum of the squared deviations from the mean, times the number of
\* quantities: n * sum(q^2) - sum(q)^2, so that variance = Deviation / n^2
Deviation(qty) ==
    Len(qty) * SumSeq([i \in 1..Len(qty) |-> qty[i] * qty[i]]) - SumSeq(qty) * SumSeq(qty)

CalculateInventoryMetrics(d, leadTimeDays) ==
    LET totalDays == TotalDays(d)
        products == InsertionOrder([i \in 1..Len(d) |-> d[i].Product])
        entry(p) ==
            LET rows == SelectSeq(d, LAMBDA r : r.Product = p)
                qty == Quantities(rows)
                totalQty == SumSeq(qty)
                safetyStock ==
                    CeilSqrt(ZHundredths * ZHundredths * Deviation(qty) * leadTimeDays,
                             100 * 100 * Len(qty) * Len(qty))
            IN  [productName |-> p,
                 category |-> rows[1].Category,
                 avgDailySales |-> RoundDiv(totalQty * 100, totalDays),
                 salesVariance |-> RoundSqrt(100 * 100 * Deviation(qty), Len(qty) * Len(qty)),
                 safetyStock |-> safetyStock,
                 reorderPoint |-> CeilDiv(safetyStock * totalDays + totalQty * leadTimeDays,
                                          totalDays),
                 suggestedOrderQty |-> CeilDiv(totalQty * DemandDays, totalDays)]
        entries == ArrayOf([k \in 1..Len(products) |-> entry(products[k])])
    IN  SortBy(entries, [i, j \in 1..Len(entries) |->
                            entries[j].avgDailySales - entries[i].avgDailySales])

-----------------------------------------------------------------------------
(* detectSlowMoving (src/utils/dataProcessor.ts:472-532)                    *)

DefaultThresholdDays == 30
HighRiskDays == 60
MediumRiskDays == 30

LiquidateAdvice == "{5efa}{8b70}{7acb}{5373}{6e05}{5009}{6216}{505c}{6b62}{9032}{8ca8}"
PromoteAdvice == "{5efa}{8b70}{4fc3}{92b7}{6d3b}{52d5}{6216}{964d}{50f9}{8655}{7406}"
ObserveAdvice == "{6301}{7e8c}{89c0}{5bdf}{92b7}{552e}{72c0}{6cc1}"

\* faulty variant: the rows without a date are passed over
RECURSIVE LastDatedSale(_)
LastDatedSale(rows) ==
    IF Len(rows) = 1 THEN rows[1].Date
    ELSE LET prev == LastDatedSale(Front(rows))
         IN  IF Last(rows).Date = UnknownDate THEN prev
             ELSE IF prev = UnknownDate THEN Last(rows).Date
             ELSE IF CodeUnitCompare(Last(rows).Date, prev) > 0
             THEN Last(rows).Date ELSE prev

\* lastSale of a product: the Date of its first row, replaced by the Date of
\* each later row that is greater as a string
RECURSIVE LastSale(_)
LastSale(rows) ==
    IF Len(rows) = 1 THEN rows[1].Date
    ELSE LET prev == LastSale(Front(rows))
         IN  IF CodeUnitCompare(Last(rows).Date, prev) > 0
             THEN Last(rows).Date ELSE prev

\* Math.ceil((a.getTime() - b.getTime()) / 86400000); NaN when a date is invalid
DaysBetween(a, b) ==
    IF a.nan \/ b.nan THEN [nan |-> TRUE, days |-> 0]
    ELSE [nan |-> FALSE, days |-> a.days - b.days]

\* the tier of an alert
RiskLevel(days) ==
    IF days >= HighRiskDays THEN "HIGH"
    ELSE IF days >= MediumRiskDays THEN "MEDIUM"
    ELSE "LOW"

Recommendation(days) ==
    IF days >= HighRiskDays THEN LiquidateAdvice
    ELSE IF days >= MediumRiskDays THEN PromoteAdvice
    ELSE ObserveAdvice

\* faulty variant: the gate admits every product with a dated last sale
FlaggedWhenDated(since, thresholdDays) == ~since.nan

\* daysSinceLastSale >= thresholdDays; a comparison with NaN is false
Flagged(since, thresholdDays) == ~since.nan /\ since.days >= thresholdDays

DetectSlowMoving(d, thresholdDays) ==
    LET dated == SelectSeq(d, LAMBDA r : r.Date # UnknownDate)
        dates == SortBy([i \in 1..Len(dated) |-> dated[i].Date],
                        [i, j \in 1..Len(dated) |->
                            CodeUnitCompare(dated[i].Date, dated[j].Date)])
    IN  IF dates = <<>> THEN <<>>
        ELSE
        LET lastRecordDate == ParseDate(Last(dates))
            products == InsertionOrder([i \in 1..Len(d) |-> d[i].Product])
            info(p) ==
                LET rows == SelectSeq(d, LAMBDA r : r.Product = p)
                    lastSale == LastSale(rows)
                IN  [productName |-> p,
                     category |-> rows[1].Category,
                     lastSale |-> lastSale,
                     since |-> DaysBetween(lastRecordDate, ParseDate(lastSale)),
                     totalQty |-> SumSeq(Quantities(rows))]
            infos == ArrayOf([k \in 1..Len(products) |-> info(products[k])])
            flagged == SelectSeq(infos, LAMBDA x : Flagged(x.since, thresholdDays))
            alerts ==
                ArrayOf([k \in 1..Len(flagged) |->
                    [productName |-> flagged[k].productName,
                     category |-> flagged[k].category,
                     lastSaleDate |-> flagged[k].lastSale,
                     daysSinceLastSale |-> flagged[k].since.days,
                     totalQtyInPeriod |-> flagged[k].totalQty,
                     riskLevel |-> RiskLevel(flagged[k].since.days),
                     recommendation |-> Recommendation(flagged[k].since.days)]])
        IN  SortBy(alerts, [i, j \in 1..Len(alerts) |->
                              alerts[j].daysSinceLastSale - alerts[i].daysSinceLastSale])

-----------------------------------------------------------------------------
(* forecastNextMonth (src/utils/dataProcessor.ts:346-393)                   *)
(* Rounded percentages are held in tenths of a percent.                     *)

NoHistoryMethod == "{7121}{6b77}{53f2}{6578}{64da}"
MovingAverageMethod == "3{500b}{6708}{79fb}{52d5}{5e73}{5747}"

WindowMonths == 3
TrendBand == 5
HighConfidenceMonths == 6
LowConfidenceMonths == 3

\* seasonality.slice(-3)
Recent(seasonality) ==
    IF Len(seasonality) <= WindowMonths THEN seasonality
    ELSE SubSeq(seasonality, Len(seasonality) - WindowMonths + 1, Len(seasonality))

\* Math.round(((cur - prev) / prev) * 1000) / 10 for prev > 0, in tenths
GrowthTenths(cur, prev) == RoundDiv((cur - prev) * 1000, prev)

\* faulty variant: the trend compares the last month with the first of the window
FirstOfWindow(revenues) == revenues[1]

\* revenues[revenues.length - 2]
PrevMonth(revenues) == revenues[Len(revenues) - 1]

\* trendPercent before rounding, as an exact fraction; 0 unless prevMonth > 0
TrendPercent(revenues) ==
    IF Len(revenues) >= 2 /\ PrevMonth(revenues) > 0
    THEN [num |-> (Last(revenues) - PrevMonth(revenues)) * 100,
          den |-> PrevMonth(revenues)]
    ELSE [num |-> 0, den |-> 1]

Trend(trendPercent) ==
    IF trendPercent.num > TrendBand * trendPercent.den THEN "UP"
    ELSE IF trendPercent.num < (0 - TrendBand) * trendPercent.den THEN "DOWN"
    ELSE "STABLE"

\* faulty variant: six months of history are not yet enough for HIGH
ConfidenceAboveSix(n) ==
    IF n > HighConfidenceMonths THEN "HIGH"
    ELSE IF n < LowConfidenceMonths THEN "LOW"
    ELSE "MEDIUM"

Confidence(n) ==
    IF n >= HighConfidenceMonths THEN "HIGH"
    ELSE IF n < LowConfidenceMonths THEN "LOW"
    ELSE "MEDIUM"

ForecastNextMonth(seasonality) ==
    IF Len(seasonality) = 0
    THEN [nextMonthRevenue |-> 0, nextMonthQty |-> 0, trend |-> "STABLE",
          trendPercent |-> 0, confidence |-> "LOW",
          method |-> NoHistoryMethod]
    ELSE LET recent == Recent(seasonality)
             revenues == ArrayOf([i \in 1..Len(recent) |-> recent[i].revenue])
             quantities == ArrayOf([i \in 1..Len(recent) |-> recent[i].sales])
             trendPercent == TrendPercent(revenues)
         IN  [nextMonthRevenue |-> RoundDiv(SumSeq(revenues), Len(revenues)),
              nextMonthQty |-> RoundDiv(SumSeq(quantities), Len(quantities)),
              trend |-> Trend(trendPercent),
              trendPercent |-> RoundDiv(trendPercent.num * 10, trendPercent.den),
              confidence |-> Confidence(Len(seasonality)),
              method |-> MovingAverageMethod]

-----------------------------------------------------------------------------
(* calculateYoYComparison (src/utils/dataProcessor.ts:398-432)              *)
(* An optional field is <<>> when it is omitted or undefined, <<x>> else.   *)

\* s.split('-')
RECURSIVE SplitDash(_)
SplitDash(s) ==
    IF \E i \in 1..Len(s) : SubSeq(s, i, i) = "-"
    THEN LET i == CHOOSE k \in 1..Len(s) :
                    /\ SubSeq(s, k, k) = "-"
                    /\ \A j \in 1..(k - 1) : SubSeq(s, j, j) # "-"
         IN  << SubSeq(s, 1, i - 1) >> \o SplitDash(SubSeq(s, i + 1, Len(s)))
    ELSE << s >>

\* parseInt(s) of an unsigned string: the number of its leading digits, or NaN
ParseInt(s) ==
    LET n == Cardinality({k \in 1..Len(s) : \A j \in 1..k : Includes(Digits, SubSeq(s, j, j))})
    IN  IF n = 0 THEN [nan |-> TRUE, n |-> 0]
        ELSE [nan |-> FALSE, n |-> IndexValue(SubSeq(s, 1, n))]

\* `${parseInt(currentYM[0]) - 1}-${currentYM[1]}` when the month has two parts
LastYearMonth(month) ==
    LET currentYM == SplitDash(month)
        year == ParseInt(currentYM[1])
    IN  IF Len(currentYM) # 2 THEN <<>>
        ELSE << (IF year.nan THEN "NaN"
                 ELSE IF year.n = 0 THEN "-1"
                 ELSE NatToString(year.n - 1)) \o "-" \o currentYM[2] >>

\* monthMap.has(key) / monthMap.get(key): the last entry set for a month stays
MonthMapHas(seasonality, key) == \E i \in 1..Len(seasonality) : seasonality[i].month = key
MonthMapGet(seasonality, key) ==
    LET i == CHOOSE k \in 1..Len(seasonality) :
                /\ seasonality[k].month = key
                /\ \A j \in (k + 1)..Len(seasonality) : seasonality[j].month # key
    IN  seasonality[i].revenue

\* faulty variant: growth over a non-positive base is reported as 0
GrowthOrZero(cur, prev) == IF prev > 0 THEN << GrowthTenths(cur, prev) >> ELSE << 0 >>

\* prev > 0 ? Math.round(((cur - prev) / prev) * 1000) / 10 : undefined
Growth(cur, prev) == IF prev > 0 THEN << GrowthTenths(cur, prev) >> ELSE <<>>

CalculateYoYComparison(seasonality) ==
    LET row(index) ==
            LET current == seasonality[index]
                lastYearMonth == LastYearMonth(current.month)
            IN  [month |-> current.month,
                 currentRevenue |-> current.revenue,
                 previousRevenue |->
                     IF index > 1 THEN << seasonality[index - 1].revenue >> ELSE <<>>,
                 momGrowth |->
                     IF index > 1
                     THEN Growth(current.revenue, seasonality[index - 1].revenue)
                     ELSE <<>>,
                 yoyGrowth |->
                     IF lastYearMonth # <<>> /\ MonthMapHas(seasonality, lastYearMonth[1])
                     THEN Growth(current.revenue,
                                 MonthMapGet(seasonality, lastYearMonth[1]))
                     ELSE <<>>]
    IN  ArrayOf([index \in 1..Len(seasonality) |-> row(index)])

-----------------------------------------------------------------------------
(* analyzeProfitMargin (src/utils/dataProcessor.ts:437-466)                 *)

CostOf(n) == [kind |-> "num", n |-> n]
CostNaN == [kind |-> "nan", n |-> 0]

\* faulty variant: any defined cost activates the analysis
HasDefinedCost(d) == \E i \in 1..Len(d) : d[i].Cost.kind # "undefined"

\* data.some(r => r.Cost !== undefined && r.Cost > 0); NaN > 0 is false
HasCost(d) == \E i \in 1..Len(d) : d[i].Cost.kind = "num" /\ d[i].Cost.n > 0

\* row.Cost || 0: undefined, NaN and 0 give 0
CostOrZero(cost) == IF cost.kind = "num" THEN cost.n ELSE 0

AnalyzeProfitMargin(d) ==
    IF ~HasCost(d) THEN <<>>
    ELSE
    LET products == InsertionOrder([i \in 1..Len(d) |-> d[i].Product])
        entry(p) ==
            LET rows == SelectSeq(d, LAMBDA r : r.Product = p)
                revenue == SumSeq(Amounts(rows))
                cost == SumSeq([i \in 1..Len(rows) |->
                                   CostOrZero(rows[i].Cost) * rows[i].Quantity])
            IN  [productName |-> p,
                 category |-> rows[1].Category,
                 totalRevenue |-> revenue,
                 totalCost |-> cost,
                 grossProfit |-> revenue - cost,
                 marginPercent |-> IF revenue > 0
                                   THEN RoundDiv((revenue - cost) * 1000, revenue)
                                   ELSE 0]
        entries == ArrayOf([k \in 1..Len(products) |-> entry(products[k])])
        kept == SelectSeq(entries, LAMBDA e : e.totalRevenue > 0)
    IN  SortBy(kept, [i, j \in 1..Len(kept) |->
                        kept[j].marginPercent - kept[i].marginPercent])

-----------------------------------------------------------------------------
(* AnalysisDashboard.filteredData (src/components/AIChatPanel.tsx:210-252)  *)

AllFilter == "All"

\* the records left by the category, brand and ABC filters
FilteredRecords(records, result, category, brand, abc) ==
    LET byCategory == IF category # AllFilter
                      THEN SelectSeq(records, LAMBDA r : r.Category = category)
                      ELSE records
        byBrand == IF brand # AllFilter
                   THEN SelectSeq(byCategory, LAMBDA r : r.Brand = brand)
                   ELSE byCategory
        targetProducts ==
            {result.performanceMetrics[i].productName :
                i \in {j \in 1..Len(result.performanceMetrics) :
                          result.performanceMetrics[j].abcClass = abc}}
    IN  IF abc # AllFilter
        THEN SelectSeq(byBrand, LAMBDA r : r.Product \in targetProducts)
        ELSE byBrand

\* faulty variant: the views are recomputed from all records, not the filtered ones
RecordsToAnalyzeUnfiltered(records, result, category, brand, abc) == records

\* the record set the five analyses are re-run on
RecordsToAnalyze(records, result, category, brand, abc) ==
    FilteredRecords(records, result, category, brand, abc)

FilteredData(records, result, category, brand, abc) ==
    LET filteredRecords == RecordsToAnalyze(records, result, category, brand, abc)
        performanceMetrics == AnalyzePerformance(filteredRecords)
        productNames == {performanceMetrics[i].productName :
                            i \in 1..Len(performanceMetrics)}
    IN  [performanceMetrics |-> performanceMetrics,
         seasonality |-> AnalyzeSeasonality(filteredRecords),
         priceBands |-> AnalyzePriceBands(filteredRecords),
         brandDistribution |-> AnalyzeBrands(filteredRecords),
         dailyTrend |-> AnalyzeDailyTrend(filteredRecords),
         decisions |-> SelectSeq(result.decisions,
                                 LAMBDA x : x.productName \in productNames)]

-----------------------------------------------------------------------------
(* AnalysisDashboard.filteredData of the V2 dashboard                       *)
(* (src/AI STUDIO V2/components/AnalysisDashboard.tsx:33-87)                *)

\* faulty variant: the class of the filtered analysis is shown
LocalClass(result, local) == local.abcClass

\* globalMetric?.abcClass || local.abcClass
GlobalClass(result, local) ==
    LET global == SelectSeq(result.performanceMetrics,
                            LAMBDA g : g.productName = local.productName)
    IN  IF global # <<>> THEN global[1].abcClass ELSE local.abcClass

FilteredDataV2(records, result, category, brand, abc) ==
    LET filteredRecords == FilteredRecords(records, result, category, brand, abc)
        localMetrics == AnalyzePerformance(filteredRecords)
        performanceMetrics ==
            ArrayOf([k \in 1..Len(localMetrics) |->
                [localMetrics[k] EXCEPT !.abcClass = GlobalClass(result, localMetrics[k])]])
        visibleProducts == {performanceMetrics[i].productName :
                               i \in 1..Len(performanceMetrics)}
    IN  [performanceMetrics |-> performanceMetrics,
         seasonality |-> AnalyzeSeasonality(filteredRecords),
         priceBands |-> AnalyzePriceBands(filteredRecords),
         brandDistribution |-> AnalyzeBrands(filteredRecords),
         dailyTrend |-> AnalyzeDailyTrend(filteredRecords),
         decisions |-> SelectSeq(result.decisions,
                                 LAMBDA x : x.productName \in visibleProducts)]

-----------------------------------------------------------------------------

(* The sample of generateDecisionMatrix (src/unnamed/part_001:20-24)        *)

SampleA == 30
SampleB == 5
SampleC == 5

\* faulty variant: the slice keeps the whole array
SliceAll(array, n) == array

\* array.slice(0, n)
SliceFirst(array, n) == SubSeq(array, 1, IF n < Len(array) THEN n ELSE Len(array))

\* array.slice(-n)
SliceLast(array, n) ==
    SubSeq(array, IF Len(array) > n THEN Len(array) - n + 1 ELSE 1, Len(array))

\* p.cumulativeShare > n
ShareAbove(p, n) == ~PctLE(p.cumulativeShare, n)

SampleData(performanceData) ==
    LET aClass == SliceFirst(SelectSeq(performanceData,
                                 LAMBDA p : PctLE(p.cumulativeShare, ThresholdA)),
                             SampleA)
        bClass == SliceFirst(SelectSeq(performanceData,
                                 LAMBDA p : /\ ShareAbove(p, ThresholdA)
                                            /\ PctLE(p.cumulativeShare, ThresholdB)),
                             SampleB)
        cClass == SliceLast(SelectSeq(performanceData,
                                LAMBDA p : ShareAbove(p, ThresholdB)),
                            SampleC)
    IN  aClass \o bClass \o cClass

-----------------------------------------------------------------------------

(* AIChatPanel.handleSend (src/components/AIChatPanel.tsx:32-60) and        *)
(* askSalesQuestion (src/services/geminiService.ts:186-231)                 *)

QuickQuestion == "{54ea}{500b}{54c1}{724c}{8ce3}{6700}{597d}{ff1f}"
NoReplyText == "{62b1}{6b49}{ff0c}{7121}{6cd5}{53d6}{5f97}{56de}{61c9}{3002}"
ChatFailedPrefix == "{5c0d}{8a71}{5931}{6557}{ff1a}"
ChatGenericError == "{767c}{751f}{932f}{8aa4}"

\* String.prototype.trim on the blanks of the model
RECURSIVE Trim(_)
Trim(s) ==
    IF s = "" THEN ""
    ELSE IF SubSeq(s, 1, 1) = " " THEN Trim(SubSeq(s, 2, Len(s)))
    ELSE IF SubSeq(s, Len(s), Len(s)) = " " THEN Trim(SubSeq(s, 1, Len(s) - 1))
    ELSE s

\* const q = question || input.trim(); question = "" stands for no argument
QuestionOf(question, input) == IF question # "" THEN question ELSE Trim(input)

\* faulty variant: a send is refused only for an empty question
SendRefusedWhenEmpty(q, loading) == q = ""

\* if (!q || isLoading) return
SendRefused(q, loading) == q = "" \/ loading

ChatMessage(role, content) == [role |-> role, content |-> content]

\* response.text || fallback
ReplyText(text) == IF text = "" THEN NoReplyText ELSE text

\* the message of the Error askSalesQuestion throws
ChatError(message) == ChatFailedPrefix \o message

\* setError(err.message || fallback)
ChatErrorMessage(message) == IF message = "" THEN ChatGenericError ELSE message

-----------------------------------------------------------------------------

(* generateDecisionMatrix (src/services/geminiService.ts:6-118)             *)

Models ==
    << "gemini-2.0-flash-exp", "gemini-1.5-flash", "gemini-1.5-flash-001",
       "gemini-1.5-flash-002", "gemini-1.5-flash-latest", "gemini-1.5-pro" >>

\* the error a failed attempt is rejected with
TimeoutError(model) ==
    "AI {5206}{6790}{6642}{9593}{8f03}{9577} (" \o model \o "){ff0c}{8acb}{7a0d}{5019} (180{79d2})"
ApiError(model) == "ApiError: " \o model

EmptyTextError == "AI {5206}{6790}{56de}{50b3}{7a7a}{7d50}{679c}{ff0c}{8acb}{6aa2}{67e5}{7db2}{8def}{9023}{7dda}{3002}"
ParseFailedPrefix == "AI {56de}{61c9}{89e3}{6790}{5931}{6557}: "
MissingDecisionsError == "AI {56de}{61c9}{683c}{5f0f}{7570}{5e38}{ff1a}{7f3a}{5c11} decisions {9663}{5217}"
JsonSyntaxError == "Unexpected token"
DefaultSummary == "AI {672a}{63d0}{4f9b}{7b56}{7565}{6458}{8981}"
GenericError == "{5206}{6790}{904e}{7a0b}{4e2d}{767c}{751f}{932f}{8aa4}{ff0c}{8acb}{6aa2}{67e5}{6a94}{6848}{683c}{5f0f}{6216}{7db2}{8def}{9023}{7dda}{3002}"
NoValidDataError == "{7121}{6cd5}{5f9e}{6a94}{6848}{4e2d}{89e3}{6790}{51fa}{6709}{6548}{6578}{64da}{ff0c}{8acb}{6aa2}{67e5}{6b04}{4f4d}{540d}{7a31} ({9700}{5305}{542b}{5546}{54c1}{3001}{91d1}{984d}{3001}{65e5}{671f})"

\* what a resolved generateContent call carries
ResponseKinds == {"ok", "noSummary", "emptyText", "malformedJSON", "noDecisions"}
FailureKinds == {"rejected", "timeout"}

AttemptError(model, kind) ==
    IF kind = "timeout" THEN TimeoutError(model) ELSE ApiError(model)

\* the decisions the service returns: one per product it was sent
DecisionsFor(performance) ==
    ArrayOf([i \in 1..Len(performance) |->
                [productName |-> performance[i].productName]])

\* lines 98-117: [threw, error, value] from the response of a successful attempt
ParseResponse(kind, performance) ==
    IF kind = "emptyText"
    THEN [threw |-> TRUE, error |-> EmptyTextError, value |-> <<>>]
    ELSE IF kind = "malformedJSON"
    THEN [threw |-> TRUE, error |-> ParseFailedPrefix \o JsonSyntaxError, value |-> <<>>]
    ELSE IF kind = "noDecisions"
    THEN [threw |-> TRUE, error |-> ParseFailedPrefix \o MissingDecisionsError,
          value |-> <<>>]
    ELSE [threw |-> FALSE, error |-> NULL,
          value |-> << [decisions |-> DecisionsFor(performance),
                        overallSummary |-> IF kind = "noSummary" THEN DefaultSummary
                                           ELSE "summary"] >>]

\* catch (err) { lastError = err; continue; }
RecordError(lastError, err) == err

\* faulty variant: a failed attempt skips the model that follows
SkipModelAfter(k) == k + 2

\* for (const model of models): the model tried after model k
NextModelAfter(k) == k + 1

IdleAttempts == [k \in 1..Len(Models) |-> "idle"]

-----------------------------------------------------------------------------
(* App.handleDataLoaded (src/App.tsx:20-71) and InputSection.processFiles   *)

\* faulty variant: the empty-result check is dropped
NoProductsNever(performance) == FALSE

\* performance.length === 0
NoProducts(performance) == Len(performance) = 0

\* the local analytics of lines 28-32
LocalAnalytics(records) ==
    [performanceMetrics |-> AnalyzePerformance(records),
     seasonality |-> AnalyzeSeasonality(records),
     priceBands |-> AnalyzePriceBands(records),
     brandDistribution |-> AnalyzeBrands(records),
     dailyTrend |-> AnalyzeDailyTrend(records)]

\* the object of setAnalysisResult (lines 49-63)
CombinedResult(local, aiResult) ==
        [performanceMetrics |-> local.performanceMetrics,
         seasonality |-> local.seasonality,
         priceBands |-> local.priceBands,
         brandDistribution |-> local.brandDistribution,
         dailyTrend |-> local.dailyTrend,
         decisions |-> aiResult.decisions,
         overallSummary |-> aiResult.overallSummary]

\* setError(err.message || fallback)
ErrorMessage(message) == IF message = "" THEN GenericError ELSE message

-----------------------------------------------------------------------------
(* Bounds and input pools                                                   *)

MaxRuns == 2
MaxRecords == 3
MaxRows == 2
MaxFragments == 2

PoolProducts == {"LG Fridge X", "Sony TV", "Mixer"}
PoolDates == {"2024-01-05", "2024-02-06"}
\* <<Quantity, Amount>>
PoolSales == { <<2, 40000>>, <<1, 20000>>, <<1, 16000>>, <<1, 3000>>,
               <<1, 1000>>, <<0, 1000>>, <<1, -1000>> }

CategoryOf(p) ==
    IF p = "LG Fridge X" THEN "Fridge"
    ELSE IF p \in {"Sony TV", "LG TV"} THEN "TV" ELSE "Kitchen"

\* records as normalizeData returns them
RecordPool ==
    {r \in {SalesRecord(d, CategoryOf(p), p, s[1], s[2], CostUndefined) :
                d \in PoolDates, p \in PoolProducts, s \in PoolSales} : KeepRecord(r)}

SeqsUpTo(S, n) == UNION {[1..k -> S] : k \in 0..n}

Rec(date, product, qty, amount) ==
    SalesRecord(date, CategoryOf(product), product, qty, amount, CostUndefined)

\* two sales of one product
LGExample ==
    << Rec("2024-01-05", "LG Fridge X", 2, 40000),
       Rec("2024-01-06", "LG Fridge X", 1, 20000) >>

\* three products with shares 80, 15 and 5 percent
ParetoExample ==
    << Rec("2024-01-05", "Mixer", 1, 1000),
       Rec("2024-01-05", "LG Fridge X", 1, 16000),
       Rec("2024-02-06", "Sony TV", 1, 3000) >>

\* the record sets handed to handleDataLoaded; the empty one is what
\* normalizeData returns when no row survives its filter
AppRecordSets == { <<>>, LGExample, ParetoExample }

\* the pool of the dashboard: two brands, one of them in two categories
DashProducts == {"LG Fridge X", "LG TV", "Sony TV"}
DashPool ==
    {Rec("2024-01-05", p, 1, a) : p \in DashProducts, a \in {16000, 3000, 1000}}

\* the pool of the price bands: unit prices on, below and between the
\* band boundaries, a quantity of 0, a negative quantity, a negative amount
\* <<Quantity, Amount>>
BandSales ==
    { <<1, 2999>>, <<1, 3000>>, <<1, 9999>>, <<1, 10000>>, <<1, 15000>>,
      <<1, 24999>>, <<2, 50000>>, <<2, 79999>>, <<1, 40000>>, <<3, 10000>>,
      <<0, 50000>>, <<-1, 5000>>, <<1, -1000>> }
BandPool ==
    {r \in {Rec("2024-01-05", "Mixer", s[1], s[2]) : s \in BandSales} : KeepRecord(r)}

\* the pool of the slow-moving detector: sales 90, 60, 59, 30, 29 and 0 days
\* before 2024-03-01, and a row without a date
SlowDates ==
    {UnknownDate, "2023-12-02", "2024-01-01", "2024-01-02", "2024-01-31",
     "2024-02-01", "2024-03-01"}
SlowPool == {Rec(d, p, 1, 1000) : d \in SlowDates, p \in PoolProducts}
\* the default threshold, one below the MEDIUM tier and one above it
SlowThresholds == {15, DefaultThresholdDays, 45}

\* the pool of the monthly series: the months analyzeSeasonality can return
\* in its ascending order, two of them one year after another one, and the
\* last the key of the rows without a date; revenues around a change of 5%
\* of 20, a month without revenue and a month of refunds
MaxMonths == 6
SeriesMonths ==
    << "2023-01", "2023-02", "2023-12", "2024-01", "2024-02", UnknownDate >>
SeriesRevenues == {0, 19, 20, 21, -20}
\* the entry of month i with a revenue; the quantity follows the revenue
SeriesEntry(i, revenue) ==
    [month |-> SeriesMonths[i],
     sales |-> IF revenue > 0 THEN revenue - 18 ELSE 1,
     revenue |-> revenue,
     topCategory |-> "TV"]
\* the k-th smallest element of a set of numbers
Nth(S, k) == CHOOSE i \in S : Cardinality({j \in S : j < i}) = k - 1
\* the series of the months S with the revenues f
Series(S, f) ==
    LET idx == ArrayOf([k \in 1..Cardinality(S) |-> Nth(S, k)])
    IN  ArrayOf([k \in 1..Len(idx) |-> SeriesEntry(idx[k], f[idx[k]])])
MonthSets == {T \in SUBSET (1..Len(SeriesMonths)) : Cardinality(T) <= MaxMonths}

\* the pool of the margin analysis: two products, sales with a refund and a
\* free unit, and a unit cost that is missing, not a number, zero or positive
ProfitProducts == {"Mixer", "Sony TV"}
ProfitSales == { <<1, 1000>>, <<2, 1000>>, <<1, -1000>>, <<0, 1000>> }
ProfitCosts == {CostUndefined, CostNaN, CostOf(0), CostOf(400), CostOf(800)}
ProfitPool ==
    {SalesRecord("2024-01-05", CategoryOf(p), p, s[1], s[2], c) :
        p \in ProfitProducts, s \in ProfitSales, c \in ProfitCosts}

RawDates ==
    {JsNull, JsNum(45296), JsStr("2024-01-05"), JsStr("Q1"), JsNum(1704412800)}
RawProducts == {JsNull, JsStr("LG Fridge X")}
RawCategories == {JsNull, JsStr("Fridge")}
RawQuantities == {JsNull, JsNum(2), JsStr("abc"), JsNum(-1)}
RawAmounts == {JsNull, JsNum(1000), JsStr("abc")}

Header == << "Date", "Category", "Product Name", "Qty", "Amount" >>

\* a sheet row: the cells that hold a value, in column order
RawRow(vals) ==
    LET present == SelectSeq([i \in 1..Len(Header) |-> i], LAMBDA i : vals[i].t # "null")
    IN  [k \in 1..Len(present) |-> [key |-> Header[present[k]], val |-> vals[present[k]]]]

\* every date, quantity and amount on a fully labelled row, and the rows
\* that lack the product, the category or both
RawRowPool ==
    {RawRow(<<d, JsStr("Fridge"), JsStr("LG Fridge X"), q, a>>) :
        d \in RawDates, q \in RawQuantities, a \in RawAmounts}
    \cup
    {RawRow(<<JsStr("2024-01-05"), c, p, JsNum(2), JsNum(1000)>>) :
        c \in RawCategories, p \in RawProducts}

\* the rows of the merged files: a sale, the same sale with its date as an
\* Excel serial, in another category, of another product, with a quantity
\* that is not a number, without a date, without quantity and amount, and
\* with a date that is out of range
MaxMergedRows == 4
MergedRowPool ==
    {RawRow(<<JsStr("2024-01-05"), JsStr("Fridge"), JsStr("LG Fridge X"), JsNum(2), JsNum(1000)>>),
     RawRow(<<JsNum(45296), JsStr("Fridge"), JsStr("LG Fridge X"), JsNum(2), JsNum(1000)>>),
     RawRow(<<JsStr("2024-01-05"), JsStr("TV"), JsStr("LG Fridge X"), JsNum(2), JsNum(1000)>>),
     RawRow(<<JsStr("2024-01-05"), JsStr("TV"), JsStr("Sony TV"), JsNum(2), JsNum(1000)>>),
     RawRow(<<JsStr("2024-01-05"), JsStr("Fridge"), JsStr("LG Fridge X"), JsStr("abc"), JsNum(1000)>>),
     RawRow(<<JsNull, JsStr("Fridge"), JsStr("LG Fridge X"), JsNum(2), JsNum(1000)>>),
     RawRow(<<JsStr("2024-01-05"), JsStr("Fridge"), JsStr("LG Fridge X"), JsNull, JsNull>>),
     RawRow(<<JsNum(1704412800), JsStr("Fridge"), JsStr("LG Fridge X"), JsNum(2), JsNum(1000)>>)}

\* the pool of the monthly grouping: two days of one month, a day of the
\* month before, a row without a date and a date cell that names a quarter;
\* categories by name and by numeric code
SeasonDates == {"2023-12-30", "2024-01-05", "2024-01-20", UnknownDate, "Q1"}
SeasonCategories == {"TV", "Kitchen", "7"}
SeasonSales == { <<1, 1000>>, <<2, 3000>> }
SeasonPool ==
    {SalesRecord(d, c, "Mixer", s[1], s[2], CostUndefined) :
        d \in SeasonDates, c \in SeasonCategories, s \in SeasonSales}

\* the pool of the inventory metrics: two products on two days and on a row
\* without a date; a unit, three units, a free gift line of quantity 0 and a
\* return entered with a negative quantity, all of them kept by normalizeData
InventoryDates == {"2024-01-05", "2024-01-06", UnknownDate}
InventorySales == { <<1, 1000>>, <<3, 3000>>, <<0, 1000>>, <<-1, 1000>> }
InventoryPool ==
    {r \in {Rec(d, p, s[1], s[2]) :
                d \in InventoryDates, p \in ProfitProducts, s \in InventorySales} :
        KeepRecord(r)}
\* the default lead time, a single day and two weeks
LeadTimes == {1, DefaultLeadTimeDays, 14}

\* the performance lists of the sample: up to MaxClassA rows with a share of
\* at most 80, MaxClassB rows between 80 and 95 and MaxClassC rows above 95,
\* the three groups in any order; the shares lie on the thresholds and next
\* to them, and every row is another product
MaxClassA == 32
MaxClassB == 7
MaxClassC == 7
GroupOrders == {<<1, 2, 3>>, <<1, 3, 2>>, <<2, 1, 3>>, <<2, 3, 1>>, <<3, 1, 2>>, <<3, 2, 1>>}
\* the share of the k-th row of a group, as a fraction
GroupShare(g, k) ==
    IF g = 1 THEN (IF k % 2 = 1 THEN [num |-> 80, den |-> 1] ELSE [num |-> 40, den |-> 1])
    ELSE IF g = 2 THEN (IF k % 2 = 1 THEN [num |-> 95, den |-> 1] ELSE [num |-> 801, den |-> 10])
    ELSE (IF k % 2 = 1 THEN [num |-> 951, den |-> 10] ELSE [num |-> 100, den |-> 1])
PerformanceRow(g, k) ==
    [productName |-> <<g, k>>,
     cumulativeShare |-> GroupShare(g, k),
     abcClass |-> AbcClass(GroupShare(g, k))]
PerformanceList(n, order) ==
    LET group(g) == [k \in 1..n[g] |-> PerformanceRow(g, k)]
    IN  ArrayOf(group(order[1]) \o group(order[2]) \o group(order[3]))

\* the chat: what the user types, the quick question button, what the API
\* answers, and the number of requests of a session
MaxRequests == 3
ChatInputs == {"", " ", "LG ?", " LG ? "}
SendArguments == {"", QuickQuestion}
ReplyTexts == {"", "42"}
ApiFailures == {"network"}

NameFragments ==
    {"Panasonic", "{570b}{969b}", "LG", "l", "G", "Samsung", "SONY", "hitachi",
     "Toshiba", "{590f}{666e}", "Teco", "SAMPO", "Heran", "Sanlux", "sakura",
     "Dyson", "Philips", "{5927}{540c}", "Whirlpool", "{5927}{91d1}",
     " Fridge X", "al", "gae"}

RECURSIVE Concat(_)
Concat(fs) == IF fs = <<>> THEN "" ELSE Concat(Front(fs)) \o Last(fs)

ProductNames == {Concat(fs) : fs \in SeqsUpTo(NameFragments, MaxFragments)}

-----------------------------------------------------------------------------
(* State machine                                                            *)

AppIdle ==
    /\ isLoading = FALSE
    /\ analysisResult = <<>>
    /\ rawRecords = <<>>
    /\ error = NULL
    /\ runs = <<>>

DashIdle == filterCategory = AllFilter /\ filterBrand = AllFilter /\ filterABC = AllFilter
AggIdle == data = <<>> /\ views = <<>>
NormIdle == rawData = <<>> /\ normalized = [status |-> "idle", records |-> <<>>]
BrandIdle == productName = "" /\ brandLabel = NULL
ChatIdle ==
    chat = [messages |-> <<>>, input |-> "", isLoading |-> FALSE, error |-> NULL,
            requests |-> <<>>]

\* one invocation of processFiles and, from it, of handleDataLoaded
NewRun ==
    [pc |-> "parsing", records |-> <<>>, local |-> <<>>, outcome |-> NULL,
     model |-> 0, attempts |-> IdleAttempts, lastError |-> NULL,
     responseModel |-> 0, thrown |-> NULL]

\* handleDrop / handleChange: the drop zone is mounted while there is no
\* result and takes pointer events while nothing is loading
DropFiles ==
    /\ analysisResult = <<>>
    /\ ~isLoading
    /\ Len(runs) < MaxRuns
    /\ runs' = Append(runs, NewRun)
    /\ UNCHANGED <<isLoading, analysisResult, rawRecords, error>>
    /\ UNCHANGED <<dashVars, aggVars, normVars, brandVars, chatVars>>

\* processFiles ends in an alert: no valid file, no row, or a failure
FilesRejected(i) ==
    /\ runs[i].pc = "parsing"
    /\ runs' = [runs EXCEPT ![i].pc = "done", ![i].outcome = "aborted"]
    /\ UNCHANGED <<isLoading, analysisResult, rawRecords, error>>
    /\ UNCHANGED <<dashVars, aggVars, normVars, brandVars, chatVars>>

\* processFiles calls onDataLoaded: handleDataLoaded up to its first await
FilesLoaded(i, records) ==
    /\ runs[i].pc = "parsing"
    /\ rawRecords' = records
    /\ analysisResult' = <<>>
    /\ LET local == LocalAnalytics(records)
       IN  IF NoProducts(local.performanceMetrics)
           THEN /\ error' = ErrorMessage(NoValidDataError)
                /\ isLoading' = FALSE
                /\ runs' = [runs EXCEPT ![i].pc = "done", ![i].records = records,
                                        ![i].local = << local >>,
                                        ![i].outcome = "noData"]
           ELSE /\ error' = NULL
                /\ isLoading' = TRUE
                /\ runs' = [runs EXCEPT ![i].pc = "awaitAI", ![i].records = records,
                                        ![i].local = << local >>,
                                        ![i].model = 1, ![i].attempts[1] = "pending"]
    /\ UNCHANGED <<dashVars, aggVars, normVars, brandVars, chatVars>>

\* the attempt in flight is rejected by the API or by its timeout
AttemptFails(i, kind) ==
    /\ runs[i].pc = "awaitAI"
    /\ LET k == runs[i].model
           err == AttemptError(Models[k], kind)
           lastError == RecordError(runs[i].lastError, err)
           next == NextModelAfter(k)
       IN  IF next <= Len(Models)
           THEN /\ runs' = [runs EXCEPT ![i].attempts[k] = "failed",
                                        ![i].attempts[next] = "pending",
                                        ![i].model = next,
                                        ![i].lastError = lastError]
                /\ UNCHANGED <<isLoading, analysisResult, error>>
           ELSE /\ runs' = [runs EXCEPT ![i].attempts[k] = "failed",
                                        ![i].pc = "done", ![i].model = 0,
                                        ![i].outcome = "aiFailed",
                                        ![i].lastError = NULL,
                                        ![i].thrown = lastError]
                /\ error' = ErrorMessage(lastError)
                /\ isLoading' = FALSE
                /\ UNCHANGED analysisResult
    /\ UNCHANGED rawRecords
    /\ UNCHANGED <<dashVars, aggVars, normVars, brandVars, chatVars>>

\* the attempt in flight resolves: the response is parsed and the run ends
AttemptSucceeds(i, kind) ==
    /\ runs[i].pc = "awaitAI"
    /\ LET k == runs[i].model
           local == runs[i].local[1]
           parsed == ParseResponse(kind, local.performanceMetrics)
       IN  /\ runs' = [runs EXCEPT ![i].attempts[k] = "ok", ![i].pc = "done",
                                   ![i].model = 0, ![i].lastError = NULL,
                                   ![i].responseModel = k,
                                   ![i].outcome = IF parsed.threw THEN "aiFailed"
                                                  ELSE "ok",
                                   ![i].thrown = parsed.error]
           /\ IF parsed.threw
              THEN error' = ErrorMessage(parsed.error) /\ UNCHANGED analysisResult
              ELSE /\ analysisResult' = << CombinedResult(local, parsed.value[1]) >>
                   /\ UNCHANGED error
    /\ isLoading' = FALSE
    /\ UNCHANGED rawRecords
    /\ UNCHANGED <<dashVars, aggVars, normVars, brandVars, chatVars>>

\* the "upload a new file" button of the results view
UploadNewFile ==
    /\ analysisResult # <<>>
    /\ analysisResult' = <<>>
    /\ UNCHANGED <<isLoading, rawRecords, error, runs>>
    /\ UNCHANGED <<dashVars, aggVars, normVars, brandVars, chatVars>>

Init == AppIdle /\ DashIdle /\ AggIdle /\ NormIdle /\ BrandIdle /\ ChatIdle

Next ==
    \/ DropFiles
    \/ \E i \in 1..Len(runs) : FilesRejected(i)
    \/ \E i \in 1..Len(runs) : \E records \in AppRecordSets : FilesLoaded(i, records)
    \/ \E i \in 1..Len(runs) : \E kind \in FailureKinds : AttemptFails(i, kind)
    \/ \E i \in 1..Len(runs) : \E kind \in ResponseKinds : AttemptSucceeds(i, kind)
    \/ UploadNewFile

Spec == Init /\ [][Next]_vars

\* --- the aggregation engine on a record set

InitAgg ==
    /\ data \in SeqsUpTo(RecordPool, MaxRecords)
    /\ views = <<>>
    /\ AppIdle /\ DashIdle /\ NormIdle /\ BrandIdle /\ ChatIdle

Analyze ==
    /\ views = <<>>
    /\ views' = << LocalAnalytics(data) >>
    /\ UNCHANGED <<data, appVars, dashVars, normVars, brandVars, chatVars>>

NextAgg == Analyze

SpecAgg == InitAgg /\ [][NextAgg]_vars

\* --- the dashboard over a finished analysis

InitDash ==
    /\ rawRecords \in SeqsUpTo(DashPool, MaxRecords)
    /\ ~NoProducts(AnalyzePerformance(rawRecords))
    /\ analysisResult =
          << CombinedResult(LocalAnalytics(rawRecords),
                 ParseResponse("ok", AnalyzePerformance(rawRecords)).value[1]) >>
    /\ isLoading = FALSE /\ error = NULL /\ runs = <<>>
    /\ DashIdle /\ AggIdle /\ NormIdle /\ BrandIdle /\ ChatIdle

CategoryOptions == {AllFilter} \cup {rawRecords[i].Category : i \in 1..Len(rawRecords)}
BrandOptions == {AllFilter} \cup {rawRecords[i].Brand : i \in 1..Len(rawRecords)}
AbcOptions == {AllFilter, ClassA, ClassB, ClassC}

SetFilterCategory(c) ==
    /\ filterCategory' = c
    /\ UNCHANGED <<filterBrand, filterABC, appVars, aggVars, normVars, brandVars, chatVars>>

SetFilterBrand(b) ==
    /\ filterBrand' = b
    /\ UNCHANGED <<filterCategory, filterABC, appVars, aggVars, normVars, brandVars, chatVars>>

SetFilterABC(x) ==
    /\ filterABC' = x
    /\ UNCHANGED <<filterCategory, filterBrand, appVars, aggVars, normVars, brandVars, chatVars>>

NextDash ==
    \/ \E c \in CategoryOptions : SetFilterCategory(c)
    \/ \E b \in BrandOptions : SetFilterBrand(b)
    \/ \E x \in AbcOptions : SetFilterABC(x)

SpecDash == InitDash /\ [][NextDash]_vars

\* the useMemo value of the dashboard in the current state
filteredRecords ==
    FilteredRecords(rawRecords, analysisResult[1], filterCategory, filterBrand, filterABC)
filteredData ==
    FilteredData(rawRecords, analysisResult[1], filterCategory, filterBrand, filterABC)

\* the useMemo value of the V2 dashboard in the current state
filteredDataV2 ==
    FilteredDataV2(rawRecords, analysisResult[1], filterCategory, filterBrand, filterABC)

\* --- normalizeData on raw rows

InitNorm ==
    /\ rawData \in SeqsUpTo(RawRowPool, MaxRows)
    /\ normalized = [status |-> "idle", records |-> <<>>]
    /\ AppIdle /\ DashIdle /\ AggIdle /\ BrandIdle /\ ChatIdle

Normalize ==
    /\ normalized.status = "idle"
    /\ normalized' = NormalizeData(rawData)
    /\ UNCHANGED <<rawData, appVars, dashVars, aggVars, brandVars, chatVars>>

NextNorm == Normalize

SpecNorm == InitNorm /\ [][NextNorm]_vars

\* --- detectBrand on a product name

InitBrand ==
    /\ productName \in ProductNames
    /\ brandLabel = NULL
    /\ AppIdle /\ DashIdle /\ AggIdle /\ NormIdle /\ ChatIdle

Detect ==
    /\ brandLabel = NULL
    /\ brandLabel' = DetectBrand(productName)
    /\ UNCHANGED <<productName, appVars, dashVars, aggVars, normVars, chatVars>>

NextBrand == Detect

SpecBrand == InitBrand /\ [][NextBrand]_vars

\* --- analyzePriceBands on a record set

InitBands ==
    /\ data \in SeqsUpTo(BandPool, MaxRecords)
    /\ views = <<>>
    /\ AppIdle /\ DashIdle /\ NormIdle /\ BrandIdle /\ ChatIdle

AnalyzeBands ==
    /\ views = <<>>
    /\ views' = << AnalyzePriceBands(data) >>
    /\ UNCHANGED <<data, appVars, dashVars, normVars, brandVars, chatVars>>

NextBands == AnalyzeBands

SpecBands == InitBands /\ [][NextBands]_vars

\* --- detectSlowMoving on a record set

InitSlow ==
    /\ data \in SeqsUpTo(SlowPool, MaxRecords)
    /\ views = <<>>
    /\ AppIdle /\ DashIdle /\ NormIdle /\ BrandIdle /\ ChatIdle

DetectSlow(thresholdDays) ==
    /\ views = <<>>
    /\ views' = << [thresholdDays |-> thresholdDays,
                    alerts |-> DetectSlowMoving(data, thresholdDays)] >>
    /\ UNCHANGED <<data, appVars, dashVars, normVars, brandVars, chatVars>>

NextSlow == \E thresholdDays \in SlowThresholds : DetectSlow(thresholdDays)

SpecSlow == InitSlow /\ [][NextSlow]_vars

\* --- forecastNextMonth and calculateYoYComparison on a monthly series
\* (src/App.tsx:36-37)

InitSeries ==
    /\ \E S \in MonthSets : \E f \in [S -> SeriesRevenues] : data = Series(S, f)
    /\ views = <<>>
    /\ AppIdle /\ DashIdle /\ NormIdle /\ BrandIdle /\ ChatIdle

AnalyzeSeries ==
    /\ views = <<>>
    /\ views' = << [forecast |-> ForecastNextMonth(data),
                    yoyComparison |-> CalculateYoYComparison(data)] >>
    /\ UNCHANGED <<data, appVars, dashVars, normVars, brandVars, chatVars>>

NextSeries == AnalyzeSeries

SpecSeries == InitSeries /\ [][NextSeries]_vars

\* --- analyzeProfitMargin on a record set

InitProfit ==
    /\ data \in SeqsUpTo(ProfitPool, MaxRecords)
    /\ views = <<>>
    /\ AppIdle /\ DashIdle /\ NormIdle /\ BrandIdle /\ ChatIdle

AnalyzeProfit ==
    /\ views = <<>>
    /\ views' = << AnalyzeProfitMargin(data) >>
    /\ UNCHANGED <<data, appVars, dashVars, normVars, brandVars, chatVars>>

NextProfit == AnalyzeProfit

SpecProfit == InitProfit /\ [][NextProfit]_vars

\* --- the deduplicating normalizeData on the rows of the merged files
\* (src/AI STUDIO V2/types.ts:211-229)

InitMerged ==
    /\ rawData \in SeqsUpTo(MergedRowPool, MaxMergedRows)
    /\ normalized = [status |-> "idle", records |-> <<>>]
    /\ AppIdle /\ DashIdle /\ AggIdle /\ BrandIdle /\ ChatIdle

NormalizeMerged ==
    /\ normalized.status = "idle"
    /\ normalized' = NormalizeDataMerged(rawData)
    /\ UNCHANGED <<rawData, appVars, dashVars, aggVars, brandVars, chatVars>>

NextMerged == NormalizeMerged

SpecMerged == InitMerged /\ [][NextMerged]_vars

\* --- analyzeSeasonality on a record set

InitSeason ==
    /\ data \in SeqsUpTo(SeasonPool, MaxRecords)
    /\ views = <<>>
    /\ AppIdle /\ DashIdle /\ NormIdle /\ BrandIdle /\ ChatIdle

AnalyzeSeason ==
    /\ views = <<>>
    /\ views' = << [seasonality |-> AnalyzeSeasonality(data)] >>
    /\ UNCHANGED <<data, appVars, dashVars, normVars, brandVars, chatVars>>

NextSeason == AnalyzeSeason

SpecSeason == InitSeason /\ [][NextSeason]_vars

\* --- calculateInventoryMetrics on a record set

InitInventory ==
    /\ data \in SeqsUpTo(InventoryPool, MaxRecords)
    /\ views = <<>>
    /\ AppIdle /\ DashIdle /\ NormIdle /\ BrandIdle /\ ChatIdle

CalculateInventory(leadTimeDays) ==
    /\ views = <<>>
    /\ views' = << [leadTimeDays |-> leadTimeDays,
                    inventoryMetrics |-> CalculateInventoryMetrics(data, leadTimeDays)] >>
    /\ UNCHANGED <<data, appVars, dashVars, normVars, brandVars, chatVars>>

NextInventory == \E leadTimeDays \in LeadTimes : CalculateInventory(leadTimeDays)

SpecInventory == InitInventory /\ [][NextInventory]_vars

\* --- the sample of the performance rows sent to the model

InitSample ==
    /\ \E a \in 0..MaxClassA : \E b \in 0..MaxClassB : \E c \in 0..MaxClassC :
          \E order \in GroupOrders : data = PerformanceList(<<a, b, c>>, order)
    /\ views = <<>>
    /\ AppIdle /\ DashIdle /\ NormIdle /\ BrandIdle /\ ChatIdle

Sample ==
    /\ views = <<>>
    /\ views' = << [sampleData |-> SampleData(data)] >>
    /\ UNCHANGED <<data, appVars, dashVars, normVars, brandVars, chatVars>>

NextSample == Sample

SpecSample == InitSample /\ [][NextSample]_vars

\* --- the chat panel

InitChat ==
    /\ ChatIdle
    /\ AppIdle /\ DashIdle /\ AggIdle /\ NormIdle /\ BrandIdle

\* onChange of the input field; the field is disabled while isLoading
TypeInput(text) ==
    /\ ~chat.isLoading
    /\ chat.input # text
    /\ chat' = [chat EXCEPT !.input = text]
    /\ UNCHANGED <<appVars, dashVars, aggVars, normVars, brandVars>>

\* handleSend up to its await: from the Enter key (no argument) or from a
\* quick question button
HandleSend(question) ==
    /\ Len(chat.requests) < MaxRequests
    /\ LET q == QuestionOf(question, chat.input)
       IN  IF SendRefused(q, chat.isLoading)
           THEN UNCHANGED chat
           ELSE chat' = [chat EXCEPT
                            !.messages = Append(@, ChatMessage("user", q)),
                            !.input = "",
                            !.isLoading = TRUE,
                            !.error = NULL,
                            !.requests = Append(@, [question |-> q, status |-> "pending"])]
    /\ UNCHANGED <<appVars, dashVars, aggVars, normVars, brandVars>>

\* the request of handleSend resolves: the rest of the try block and finally
RequestSucceeds(i, text) ==
    /\ chat.requests[i].status = "pending"
    /\ chat' = [chat EXCEPT
                   !.messages = Append(@, ChatMessage("assistant", ReplyText(text))),
                   !.isLoading = FALSE,
                   !.requests[i].status = "ok"]
    /\ UNCHANGED <<appVars, dashVars, aggVars, normVars, brandVars>>

\* the request of handleSend is rejected: catch and finally
RequestFails(i, message) ==
    /\ chat.requests[i].status = "pending"
    /\ chat' = [chat EXCEPT
                   !.error = ChatErrorMessage(ChatError(message)),
                   !.isLoading = FALSE,
                   !.requests[i].status = "failed"]
    /\ UNCHANGED <<appVars, dashVars, aggVars, normVars, brandVars>>

NextChat ==
    \/ \E text \in ChatInputs : TypeInput(text)
    \/ \E question \in SendArguments : HandleSend(question)
    \/ \E i \in 1..Len(chat.requests) : \E text \in ReplyTexts : RequestSucceeds(i, text)
    \/ \E i \in 1..Len(chat.requests) : \E message \in ApiFailures : RequestFails(i, message)

SpecChat == InitChat /\ [][NextChat]_vars

-----------------------------------------------------------------------------
(* Properties                                                               *)

Performance == views[1].performanceMetrics
TotalAmount == SumSeq(Amounts(data))
Finished(i) == runs[i].pc = "done"

\* C1: when the AI stage of handleDataLoaded fails for a record set with at
\* least one product, the application ends with the local analytics of that
\* record set still available to the dashboard.  The code keeps them only in
\* the locals of handleDataLoaded and leaves analysisResult null.
C1_LocalAnalyticsSurviveAIFailure ==
    \A i \in 1..Len(runs) :
        (Len(runs) = 1 /\ Finished(i) /\ runs[i].outcome = "aiFailed")
        => /\ analysisResult # <<>>
           /\ analysisResult[1].performanceMetrics = runs[i].local[1].performanceMetrics

\* C2: for a record set of positive total amount, analyzePerformance returns
\* the products by descending totalAmount, the cumulativeShare of a row is the
\* sum of the amountShare of the rows up to it, the last row's cumulativeShare
\* is 100 percent, and abcClass is A iff cumulativeShare <= 80, B iff
\* 80 < cumulativeShare <= 95, C iff cumulativeShare > 95.
C2_PerformanceRanking ==
    (views # <<>> /\ TotalAmount > 0) =>
        LET p == Performance
            total == TotalAmount
        IN  /\ Len(p) > 0
            /\ \A k \in 1..(Len(p) - 1) : p[k].totalAmount >= p[k + 1].totalAmount
            /\ \A k \in 1..Len(p) :
                  LET cum == p[k].cumulativeShare
                  IN  /\ p[k].amountShare.den = total /\ cum.den = total
                      /\ cum.num = SumSeq([i \in 1..k |-> p[i].amountShare.num])
                      /\ (p[k].abcClass = ClassA) <=> (cum.num <= 80 * total)
                      /\ (p[k].abcClass = ClassB) <=>
                             (80 * total < cum.num /\ cum.num <= 95 * total)
                      /\ (p[k].abcClass = ClassC) <=> (cum.num > 95 * total)
            /\ Last(p).cumulativeShare.num = 100 * total

\* three products in classes A, B and C, the first exactly at 80 percent
C2_Witness ==
    /\ views # <<>> /\ TotalAmount > 0 /\ Len(Performance) = 3
    /\ Performance[1].cumulativeShare.num = 80 * TotalAmount
    /\ Performance[1].abcClass = ClassA
    /\ Performance[2].abcClass = ClassB
    /\ Performance[3].abcClass = ClassC

SingleProduct ==
    Len(data) >= 1 /\ \A i \in 1..Len(data) : data[i].Product = data[1].Product

\* x = Math.round(a / q) for q > 0: the nearest integer, halves upwards
IsRounded(x, a, q) == 2 * x * q - q <= 2 * a /\ 2 * a < 2 * x * q + q

\* the fields of the single row that do not depend on the class
SingleProductTotals(row) ==
    /\ row.productName = data[1].Product
    /\ row.totalQty = SumSeq(Quantities(data))
    /\ row.totalAmount = TotalAmount
    /\ row.amountShare.num = 100 * row.amountShare.den
    /\ row.salesFrequency = Len(data)

\* C3 as stated: for records that all share one product and have a positive
\* total amount, analyzePerformance returns exactly one row with the summed
\* totalQty and totalAmount, averagePrice = round(totalAmount / totalQty),
\* amountShare 100 percent, salesFrequency the number of records, and
\* abcClass A.  (A division by a zero or negative totalQty never rounds to
\* the 0 the code returns for it.)
C3_SingleProductClassA ==
    (views # <<>> /\ SingleProduct /\ TotalAmount > 0) =>
        /\ Len(Performance) = 1
        /\ SingleProductTotals(Performance[1])
        /\ Performance[1].totalQty > 0
        /\ IsRounded(Performance[1].averagePrice, Performance[1].totalAmount,
                     Performance[1].totalQty)
        /\ Performance[1].abcClass = ClassA

\* C3 amended: for records that all share one product and have a positive
\* total amount, analyzePerformance returns exactly one row with the summed
\* totalQty and totalAmount, averagePrice = round(totalAmount / totalQty) when
\* totalQty is positive and 0 otherwise, amountShare 100 percent,
\* salesFrequency the number of records, and abcClass C (its cumulative share
\* of 100 percent lies above the 95 percent threshold).
C3_SingleProduct ==
    (views # <<>> /\ SingleProduct /\ TotalAmount > 0) =>
        /\ Len(Performance) = 1
        /\ SingleProductTotals(Performance[1])
        /\ IF Performance[1].totalQty > 0
           THEN IsRounded(Performance[1].averagePrice, Performance[1].totalAmount,
                          Performance[1].totalQty)
           ELSE Performance[1].averagePrice = 0
        /\ Performance[1].abcClass = ClassC

\* the two sales of 2 and 1 units for 40000 and 20000
C3_Witness ==
    /\ views # <<>> /\ SingleProduct /\ Len(data) = 2
    /\ data[1].Product = "LG Fridge X"
    /\ data[1].Quantity = 2 /\ data[1].Amount = 40000
    /\ data[2].Quantity = 1 /\ data[2].Amount = 20000
    /\ Len(Performance) = 1
    /\ Performance[1].totalQty = 3 /\ Performance[1].totalAmount = 60000
    /\ Performance[1].averagePrice = 20000 /\ Performance[1].salesFrequency = 2
    /\ Performance[1].abcClass = ClassC

\* the keys of the rows of a view are those of the records, each once
ExactKeys(keys, recordKeys) ==
    /\ \A i, j \in 1..Len(keys) : keys[i] = keys[j] => i = j
    /\ {keys[i] : i \in 1..Len(keys)} = {recordKeys[i] : i \in 1..Len(recordKeys)}

\* C4: on the filtered subset S of the loaded records, analyzePerformance,
\* analyzeSeasonality, analyzePriceBands, analyzeBrands and analyzeDailyTrend
\* return only keys (product, month, price band, brand, date) that occur in a
\* record of S, and each such key exactly once.
C4_NoPhantomRows ==
    LET S == filteredRecords
        fd == filteredData
    IN  /\ ExactKeys([k \in 1..Len(fd.performanceMetrics) |->
                         fd.performanceMetrics[k].productName],
                     [i \in 1..Len(S) |-> S[i].Product])
        /\ ExactKeys([k \in 1..Len(fd.seasonality) |-> fd.seasonality[k].month],
                     [i \in 1..Len(S) |-> MonthKey(S[i].Date)])
        /\ ExactKeys([k \in 1..Len(fd.priceBands) |-> fd.priceBands[k].range],
                     [i \in 1..Len(S) |-> PriceBand(S[i])])
        /\ ExactKeys([k \in 1..Len(fd.brandDistribution) |->
                         fd.brandDistribution[k].brand],
                     [i \in 1..Len(S) |-> S[i].Brand])
        /\ ExactKeys([k \in 1..Len(fd.dailyTrend) |-> fd.dailyTrend[k].date],
                     [i \in 1..Len(S) |-> S[i].Date])

\* a class filter that leaves some but not all products of the load
C4_Witness ==
    /\ filterABC = ClassA
    /\ filteredRecords # <<>>
    /\ \E i \in 1..Len(rawRecords) :
          \A j \in 1..Len(filteredRecords) :
              filteredRecords[j].Product # rawRecords[i].Product
    /\ Len(filteredData.performanceMetrics) >= 1

\* the brand names in the order the claim gives them
ClaimedBrandOrder ==
    << "Panasonic", "LG", "Samsung", "Sony", "Hitachi", "Toshiba", "Sharp", "TECO",
       "SAMPO", "HERAN", "Sanlux", "Sakura", "Dyson", "Philips", "Tatung",
       "Whirlpool", "Daikin" >>

BrandHits(name) ==
    {i \in 1..Len(BrandTests) :
        \E k \in BrandTests[i].keywords : Includes(ToLowerCase(name), k)}

\* C6: detectBrand returns exactly one label for every product name: the
\* Other label iff no brand keyword occurs in the lower-cased name, and
\* otherwise the label of the first brand, in the order Panasonic, LG,
\* Samsung, Sony, Hitachi, Toshiba, Sharp, TECO, SAMPO, HERAN, Sanlux, Sakura,
\* Dyson, Philips, Tatung, Whirlpool, Daikin, one of whose keywords occurs.
C6_FirstBrandWins ==
    /\ Len(BrandTests) = Len(ClaimedBrandOrder)
    /\ \A i \in 1..Len(BrandTests) :
          SubSeq(BrandTests[i].label, 1, Len(ClaimedBrandOrder[i]))
              = ClaimedBrandOrder[i]
    /\ brandLabel # NULL =>
          LET hits == BrandHits(productName)
          IN  IF hits = {} THEN brandLabel = OtherBrand
              ELSE /\ brandLabel # OtherBrand
                   /\ \E i \in hits : /\ \A j \in hits : i <= j
                                      /\ brandLabel = BrandTests[i].label

\* a name with the keywords of LG and of Panasonic, LG written first
C6_Witness ==
    /\ brandLabel = BrandTests[1].label
    /\ BrandHits(productName) = {1, 2}
    /\ SubSeq(productName, 1, 2) = "LG"

CoercedQuantity(row) == NumberOrZero(GetVal(row, QtyPatterns))
CoercedAmount(row) == NumberOrZero(GetVal(row, AmountPatterns))
SalesRows ==
    {i \in 1..Len(rawData) :
        CoercedQuantity(rawData[i]) > 0 \/ CoercedAmount(rawData[i]) > 0}

\* C7: every record normalizeData returns has Quantity > 0 or Amount > 0; a
\* row whose quantity and amount both coerce to 0 yields no record and so
\* counts in no downstream view.
C7_KeptRecordsCarrySales ==
    normalized.status = "returned" =>
        /\ \A i \in 1..Len(normalized.records) :
              normalized.records[i].Quantity > 0 \/ normalized.records[i].Amount > 0
        /\ Len(normalized.records) = Cardinality(SalesRows)
        /\ SumSeq([k \in 1..Len(AnalyzeDailyTrend(normalized.records)) |->
                      AnalyzeDailyTrend(normalized.records)[k].orders])
               = Cardinality(SalesRows)

\* two rows, one of which has neither a quantity nor an amount
C7_Witness ==
    /\ normalized.status = "returned"
    /\ Len(rawData) = 2
    /\ Cardinality(SalesRows) = 1
    /\ Len(normalized.records) = 1

\* C8: the models are attempted strictly in their listed order, one at a
\* time, a model only after every earlier one has failed; the first attempt
\* that succeeds supplies the response and no later model is called; when
\* every model has failed, the error of the last model is the one raised.
C8_FallbackInOrder ==
    \A i \in 1..Len(runs) :
        LET a == runs[i].attempts
            n == Len(Models)
        IN  /\ Cardinality({k \in 1..n : a[k] = "pending"}) <= 1
            /\ \A k \in 2..n : a[k] # "idle" => a[k - 1] = "failed"
            /\ \A k \in 1..n :
                  a[k] = "ok" => /\ \A j \in (k + 1)..n : a[j] = "idle"
                                 /\ runs[i].responseModel = k
            /\ runs[i].responseModel # 0 => a[runs[i].responseModel] = "ok"
            /\ (\A k \in 1..n : a[k] = "failed")
                  => /\ runs[i].outcome = "aiFailed"
                     /\ runs[i].thrown \in
                            {AttemptError(Models[n], kind) : kind \in FailureKinds}

\* two models failed and the third answered
C8_Witness ==
    \E i \in 1..Len(runs) :
        /\ runs[i].attempts[1] = "failed" /\ runs[i].attempts[2] = "failed"
        /\ runs[i].attempts[3] = "ok" /\ runs[i].responseModel = 3
        /\ runs[i].outcome = "ok"

\* handleDataLoaded has just been entered by run i with these records
Entered(i) ==
    /\ i <= Len(runs) /\ runs[i].pc = "parsing"
    /\ runs'[i].pc # "parsing" /\ runs'[i].outcome # "aborted"

\* C9: when handleDataLoaded receives a record set for which
\* analyzePerformance returns no product, it ends with the "no valid data"
\* error, analysisResult is null, and generateDecisionMatrix is never called
\* for that record set.
C9_EmptyResultIsError ==
    [][\A i \in 1..Len(runs') :
          /\ (Entered(i) /\ Len(AnalyzePerformance(runs'[i].records)) = 0)
                => /\ runs'[i].pc = "done"
                   /\ error' = NoValidDataError
                   /\ analysisResult' = <<>>
          /\ (runs'[i].local # <<>> /\ Len(AnalyzePerformance(runs'[i].records)) = 0)
                => runs'[i].attempts = IdleAttempts]_vars

\* a run over the empty record set has ended with the error
C9_Witness ==
    \E i \in 1..Len(runs) :
        /\ Finished(i) /\ runs[i].outcome = "noData" /\ runs[i].records = <<>>
        /\ error = NoValidDataError /\ analysisResult = <<>>

\* C10: normalizeData never raises on a malformed row: it returns a list of
\* at most as many records as rows, in which a missing or non-numeric
\* quantity or amount has become 0, a missing product or category its marker
\* and a missing date "Unknown".  A numeric date cell beyond the range of
\* Date makes toISOString raise, and the whole batch is lost.
C10_NormalizeNeverRaises ==
    normalized.status # "idle" =>
        /\ normalized.status = "returned"
        /\ Len(normalized.records) <= Len(rawData)

\* --- price bands

priceBands == views[1]
TotalRevenue == SumSeq(Amounts(data))

\* the band of a record by its unit price p = Amount / Quantity, p = 0 when
\* the quantity is 0: the index of the first boundary above p, or 5
UnitPriceBelow(r, bound) ==
    IF r.Quantity = 0 THEN 0 < bound
    ELSE IF r.Quantity > 0 THEN r.Amount < bound * r.Quantity
    ELSE r.Amount > bound * r.Quantity
BandBounds == << Band1, Band2, Band3, Band4 >>
ClaimedBand(r) ==
    IF \E k \in 1..4 : UnitPriceBelow(r, BandBounds[k])
    THEN CHOOSE k \in 1..4 :
            /\ UnitPriceBelow(r, BandBounds[k])
            /\ \A j \in 1..(k - 1) : ~UnitPriceBelow(r, BandBounds[j])
    ELSE 5
RecordsOfBand(b) == SelectSeq(data, LAMBDA r : ClaimedBand(r) = b)
NonEmptyBands == {b \in 1..5 : RecordsOfBand(b) # <<>>}

\* the returned entries are the non-empty bands in the fixed order, each with
\* the summed amounts of its records
BandsAndRevenue ==
    /\ Len(priceBands) = Cardinality(NonEmptyBands)
    /\ \A k \in 1..Len(priceBands) :
          LET b == BandIndex(priceBands[k].range)
          IN  /\ b \in NonEmptyBands
              /\ k = Cardinality({c \in NonEmptyBands : c <= b})
              /\ priceBands[k].revenue = SumSeq(Amounts(RecordsOfBand(b)))

\* the fraction n / d, d # 0, in lowest terms with a positive denominator
Abs(n) == IF n < 0 THEN 0 - n ELSE n
RECURSIVE Gcd(_, _)
Gcd(a, b) == IF b = 0 THEN a ELSE Gcd(b, a % b)
Lowest(n, d) ==
    LET g == Gcd(Abs(n), Abs(d))
    IN  IF d > 0 THEN << n \div g, d \div g >> ELSE << (0 - n) \div g, (0 - d) \div g >>

\* percent = revenue / total x 100 as an exact fraction
IsShareOfTotal(e) ==
    Lowest(e.percent.num, e.percent.den) = Lowest(e.revenue * 100, TotalRevenue)
IsZeroPercent(e) == e.percent.num = 0

\* C11 as stated: every record falls into one of the five bands by its unit
\* price, the output lists the non-empty bands in the fixed order with their
\* revenue, and percent is revenue / total revenue x 100, 0 when the total
\* revenue is 0.  The code also returns 0 when the total revenue is negative.
C11_PriceBandsShareOfTotal ==
    views # <<>> =>
        /\ BandsAndRevenue
        /\ \A k \in 1..Len(priceBands) :
              IF TotalRevenue = 0 THEN IsZeroPercent(priceBands[k])
              ELSE IsShareOfTotal(priceBands[k])

\* C11 (amended): every record falls into exactly one of the five bands by
\* its unit price (0 when the quantity is 0), the output lists only the
\* non-empty bands, in the fixed order, each with the sum of the amounts of
\* its records, and percent is revenue / total revenue x 100 when the total
\* revenue is positive and 0 when it is zero or negative.
C11_PriceBands ==
    views # <<>> =>
        /\ BandsAndRevenue
        /\ \A k \in 1..Len(priceBands) :
              IF TotalRevenue > 0 THEN IsShareOfTotal(priceBands[k])
              ELSE IsZeroPercent(priceBands[k])

\* a single record with amount 15000 and quantity 1 gave the 10k-25k band
\* alone, with revenue 15000 and percent 100
C11_Witness ==
    /\ data = << Rec("2024-01-05", "Mixer", 1, 15000) >>
    /\ views # <<>>
    /\ Len(priceBands) = 1
    /\ priceBands[1].range = BandOrder[3]
    /\ priceBands[1].revenue = 15000
    /\ priceBands[1].percent.num = 100 * priceBands[1].percent.den

SumSalesCount == SumSeq([k \in 1..Len(priceBands) |-> priceBands[k].salesCount])

alerts == views[1].alerts
thresholdDays == views[1].thresholdDays

\* the days of the dated rows of a record set, counted from 1970-01-01
DatedDays(rows) ==
    {ParseDate(rows[i].Date).days : i \in {j \in 1..Len(rows) : rows[j].Date # UnknownDate}}
MaxOf(S) == CHOOSE x \in S : \A y \in S : y <= x
RowsOf(p) == SelectSeq(data, LAMBDA r : r.Product = p)
Products == {data[i].Product : i \in 1..Len(data)}
\* the products that have a last sale date
DatedProducts == {p \in Products : DatedDays(RowsOf(p)) # {}}
\* the dataset's last observed date minus the product's last sale date
DaysSinceLastSale(p) == MaxOf(DatedDays(data)) - MaxOf(DatedDays(RowsOf(p)))
SlowProducts == {p \in DatedProducts : DaysSinceLastSale(p) >= thresholdDays}

AlertTiers ==
    \A k \in 1..Len(alerts) :
        /\ alerts[k].daysSinceLastSale >= HighRiskDays =>
              /\ alerts[k].riskLevel = "HIGH"
              /\ alerts[k].recommendation = LiquidateAdvice
        /\ (alerts[k].daysSinceLastSale >= MediumRiskDays
              /\ alerts[k].daysSinceLastSale < HighRiskDays) =>
              alerts[k].riskLevel = "MEDIUM"
AlertsDescending ==
    \A k \in 1..(Len(alerts) - 1) :
        alerts[k].daysSinceLastSale >= alerts[k + 1].daysSinceLastSale

\* C12: detectSlowMoving returns an alert for exactly the products whose last
\* sale lies thresholdDays or more whole days before the dataset's last
\* observed date, with tier HIGH from 60 days and MEDIUM from 30 to 59 days,
\* ordered by descending days.  The code takes as a product's last sale the
\* greatest Date string of its rows, the marker of a missing date included,
\* and so never flags a product that has one row without a date.
C12_SlowMovingAlerts ==
    views # <<>> =>
        /\ Len(alerts) = Cardinality(SlowProducts)
        /\ {alerts[k].productName : k \in 1..Len(alerts)} = SlowProducts
        /\ \A k \in 1..Len(alerts) :
              alerts[k].productName \in DatedProducts =>
                  alerts[k].daysSinceLastSale = DaysSinceLastSale(alerts[k].productName)
        /\ AlertTiers
        /\ AlertsDescending

\* C19 as stated: whatever the threshold, no alert has the LOW tier.
C19_LowTierUnreachable ==
    views # <<>> => \A k \in 1..Len(alerts) : alerts[k].riskLevel # "LOW"

\* C19 (amended): no alert has the LOW tier when thresholdDays is 30 or more,
\* the default included; with a smaller threshold an alert of fewer than 30
\* days has the LOW tier.
C19_LowTierBelowMedium ==
    views # <<>> =>
        \A k \in 1..Len(alerts) :
            /\ alerts[k].daysSinceLastSale >= thresholdDays
            /\ thresholdDays >= MediumRiskDays => alerts[k].riskLevel # "LOW"
            /\ alerts[k].riskLevel = "LOW" <=> alerts[k].daysSinceLastSale < MediumRiskDays

\* under the default threshold a product on the edge of the gate, last sold
\* 30 days before the last date, was flagged MEDIUM
C19_Witness ==
    /\ views # <<>>
    /\ thresholdDays = DefaultThresholdDays
    /\ \E k \in 1..Len(alerts) :
          alerts[k].daysSinceLastSale = MediumRiskDays /\ alerts[k].riskLevel = "MEDIUM"

\* --- forecast and year-over-year comparison

forecast == views[1].forecast
yoyComparison == views[1].yoyComparison
Months == Len(data)

\* C13: forecastNextMonth returns a result for every series, and its
\* confidence depends only on the number n of months: the all-zero result
\* with confidence LOW for n = 0, LOW for 1 <= n < 3, MEDIUM for 3 <= n < 6
\* and HIGH for n >= 6.
C13_ForecastConfidence ==
    views # <<>> =>
        /\ Months = 0 =>
              /\ forecast.nextMonthRevenue = 0
              /\ forecast.nextMonthQty = 0
              /\ forecast.trend = "STABLE"
              /\ forecast.trendPercent = 0
              /\ forecast.confidence = "LOW"
        /\ (1 <= Months /\ Months < 3) => forecast.confidence = "LOW"
        /\ (3 <= Months /\ Months < 6) => forecast.confidence = "MEDIUM"
        /\ Months >= 6 => forecast.confidence = "HIGH"

\* a series of six months was forecast with confidence HIGH
C13_Witness ==
    /\ views # <<>>
    /\ Months = 6
    /\ forecast.confidence = "HIGH"

LastRevenue == data[Months].revenue
PrevRevenue == data[Months - 1].revenue

\* x is a / b rounded to the nearest integer, b # 0
IsNearest(x, a, b) == 2 * Abs(x * b - a) <= Abs(b)
\* a / b > n and a / b < n for b # 0
QuotientAbove(a, b, n) == IF b > 0 THEN a > n * b ELSE a < n * b
QuotientBelow(a, b, n) == IF b > 0 THEN a < n * b ELSE a > n * b

\* the trend and the rounded percent of a change of a over the base b
TrendFollows(a, b) ==
    /\ forecast.trend = "UP" <=> QuotientAbove(a * 100, b, 5)
    /\ forecast.trend = "DOWN" <=> QuotientBelow(a * 100, b, -5)
    /\ forecast.trend \in {"UP", "DOWN", "STABLE"}
    /\ IsNearest(forecast.trendPercent, a * 1000, b)
TrendFlat == forecast.trend = "STABLE" /\ forecast.trendPercent = 0

\* C20 as stated: the trend comes from the last two months only; percent is
\* (last - prev) / prev x 100, and 0 when prev is 0 or the series has one
\* month; UP iff percent > 5, DOWN iff percent < -5, STABLE otherwise.  The
\* code also takes percent as 0 when prev is negative.
C20_TrendFromLastTwoUnlessZero ==
    (views # <<>> /\ Months >= 1) =>
        IF Months = 1 \/ PrevRevenue = 0 THEN TrendFlat
        ELSE TrendFollows(LastRevenue - PrevRevenue, PrevRevenue)

\* C20 (amended): the trend comes from the last two months only, whatever the
\* earlier months; percent is (last - prev) / prev x 100 when prev is
\* positive, and 0 when prev is zero or negative or the series has one
\* month; UP iff percent > 5, DOWN iff percent < -5, STABLE otherwise.
C20_TrendFromLastTwo ==
    (views # <<>> /\ Months >= 1) =>
        IF Months = 1 \/ PrevRevenue <= 0 THEN TrendFlat
        ELSE TrendFollows(LastRevenue - PrevRevenue, PrevRevenue)

\* after revenues 21, 19 and 20 the trend was UP by 5.3 percent, the change
\* from 19 to 20, not the change from 21
C20_Witness ==
    /\ views # <<>>
    /\ Months = 3
    /\ data[1].revenue = 21 /\ PrevRevenue = 19 /\ LastRevenue = 20
    /\ forecast.trend = "UP"
    /\ forecast.trendPercent = 53

\* a key of the form YYYY-MM, its year and its month
IsYearMonth(key) ==
    /\ Len(key) = 7
    /\ SubSeq(key, 5, 5) = "-"
    /\ IsDigits(SubSeq(key, 1, 4)) /\ IsDigits(SubSeq(key, 6, 7))
YearOf(key) == IndexValue(SubSeq(key, 1, 4))
\* b is the calendar month of a one year earlier
YearBefore(a, b) ==
    /\ IsYearMonth(a) /\ IsYearMonth(b)
    /\ SubSeq(a, 6, 7) = SubSeq(b, 6, 7)
    /\ YearOf(b) = YearOf(a) - 1
\* the rows of the same calendar month of the previous year with revenue > 0
YearBeforeRows(i) ==
    {j \in 1..Months : YearBefore(data[i].month, data[j].month) /\ data[j].revenue > 0}

\* C16: calculateYoYComparison returns one row per month in input order;
\* momGrowth is present exactly on the rows after the first whose preceding
\* row has revenue > 0, and is then the change over that revenue in percent
\* rounded to one decimal; yoyGrowth is present exactly when the series holds
\* the same calendar month of the previous year with revenue > 0, and is
\* then the change over that revenue rounded to one decimal.
C16_SparseGrowth ==
    views # <<>> =>
        /\ Len(yoyComparison) = Months
        /\ \A i \in 1..Months :
              LET row == yoyComparison[i]
              IN  /\ row.month = data[i].month
                  /\ row.currentRevenue = data[i].revenue
                  /\ row.momGrowth # <<>> <=> (i > 1 /\ data[i - 1].revenue > 0)
                  /\ row.momGrowth # <<>> =>
                        IsNearest(row.momGrowth[1],
                                  (data[i].revenue - data[i - 1].revenue) * 1000,
                                  data[i - 1].revenue)
                  /\ row.yoyGrowth # <<>> <=> YearBeforeRows(i) # {}
                  /\ row.yoyGrowth # <<>> =>
                        \E j \in YearBeforeRows(i) :
                            IsNearest(row.yoyGrowth[1],
                                      (data[i].revenue - data[j].revenue) * 1000,
                                      data[j].revenue)

\* a series with 2023-01 at 20, a month without revenue and 2024-01 at 21:
\* the last row has no momGrowth and a yoyGrowth of 5.0 percent
C16_Witness ==
    /\ views # <<>>
    /\ Months = 3
    /\ data[1].month = "2023-01" /\ data[1].revenue = 20
    /\ data[2].revenue = 0
    /\ data[3].month = "2024-01" /\ data[3].revenue = 21
    /\ yoyComparison[2].momGrowth = << -1000 >>
    /\ yoyComparison[3].momGrowth = <<>>
    /\ yoyComparison[3].yoyGrowth = << 50 >>

\* --- profit margin

profitAnalysis == views[1]

\* a record carries a defined positive cost
HasPositiveCost(r) == r.Cost.kind = "num" /\ r.Cost.n > 0
\* unit cost x quantity of a record; a record without a cost contributes 0
RecordCost(r) == IF r.Cost.kind = "num" THEN r.Cost.n * r.Quantity ELSE 0
ProductRevenue(p) == SumSeq(Amounts(RowsOf(p)))
ProductCost(p) == SumSeq([i \in 1..Len(RowsOf(p)) |-> RecordCost(RowsOf(p)[i])])
EarningProducts == {p \in Products : ProductRevenue(p) > 0}

\* C14: analyzeProfitMargin returns nothing when no record has a defined
\* positive cost; otherwise it returns exactly one row per product with a
\* positive total revenue, carrying the total revenue, the total cost (the
\* sum of unit cost x quantity, 0 for a record without cost) and their
\* difference as gross profit, in descending order of margin percent.
C14_ProfitMargin ==
    views # <<>> =>
        IF \A i \in 1..Len(data) : ~HasPositiveCost(data[i])
        THEN profitAnalysis = <<>>
        ELSE /\ Len(profitAnalysis) = Cardinality(EarningProducts)
             /\ {profitAnalysis[k].productName : k \in 1..Len(profitAnalysis)}
                    = EarningProducts
             /\ \A k \in 1..Len(profitAnalysis) :
                   LET row == profitAnalysis[k]
                   IN  /\ row.totalRevenue = ProductRevenue(row.productName)
                       /\ row.totalCost = ProductCost(row.productName)
                       /\ row.grossProfit = row.totalRevenue - row.totalCost
                       /\ IsNearest(row.marginPercent, row.grossProfit * 1000,
                                     row.totalRevenue)
             /\ \A k \in 1..(Len(profitAnalysis) - 1) :
                   profitAnalysis[k].marginPercent >= profitAnalysis[k + 1].marginPercent

\* two products with a cost: the one with the higher margin came first,
\* although it was second in the input
C14_Witness ==
    /\ views # <<>>
    /\ Len(data) = 2
    /\ data[1].Product = "Mixer" /\ data[2].Product = "Sony TV"
    /\ Len(profitAnalysis) = 2
    /\ profitAnalysis[1].productName = "Sony TV"
    /\ profitAnalysis[1].marginPercent > profitAnalysis[2].marginPercent
    /\ profitAnalysis[2].totalCost > 0

\* --- quantity of a normalized record

\* C17: every record returned by normalizeData has Quantity >= 0, whatever
\* the raw quantity, and a missing or non-numeric quantity becomes 0.  The
\* code writes Number(qtyVal) || 0, which keeps a negative number, and the
\* filter keeps the row when its amount is positive.
C17_QuantityNonNegative ==
    normalized.status = "returned" =>
        /\ \A k \in 1..Len(normalized.records) : normalized.records[k].Quantity >= 0
        /\ \A i \in 1..Len(rawData) :
              ToNumber(GetVal(rawData[i], QtyPatterns)).nan =>
                  NormalizeRow(rawData[i]).record.Quantity = 0

\* --- deduplication

\* the composite key of a record
CompositeKey(r) == << r.Date, r.Product, r.Quantity, r.Amount >>
\* the records that the rows of the input normalize to
CleanRecords == ArrayOf([i \in 1..Len(rawData) |-> NormalizeRowMerged(rawData[i]).record])
\* the rows that are sales and the first of their key in input order
FirstOfKey(clean) ==
    {i \in 1..Len(clean) :
        /\ KeepRecord(clean[i])
        /\ \A j \in 1..(i - 1) : CompositeKey(clean[j]) # CompositeKey(clean[i])}

\* C15: the deduplicating normalizer returns no two records with the same
\* composite key (normalized date, product name, quantity, amount): of the
\* rows with equal key the first in input order is kept and the later ones
\* are dropped, and the kept rows stay in input order.
C15_FirstOccurrenceWins ==
    normalized.status = "returned" =>
        LET out == normalized.records
            clean == CleanRecords
            first == FirstOfKey(clean)
        IN  /\ \A k, l \in 1..Len(out) :
                  CompositeKey(out[k]) = CompositeKey(out[l]) => k = l
            /\ Len(out) = Cardinality(first)
            /\ \A k \in 1..Len(out) : out[k] = clean[Nth(first, k)]

\* of four rows the second and the fourth had the key of the first, written
\* differently (the date as an Excel serial, another category): the first
\* and the third were returned, in that order
C15_Witness ==
    /\ normalized.status = "returned"
    /\ Len(rawData) = 4
    /\ rawData[2] # rawData[1] /\ rawData[4] # rawData[1] /\ rawData[4] # rawData[2]
    /\ LET clean == CleanRecords
       IN  /\ CompositeKey(clean[2]) = CompositeKey(clean[1])
           /\ CompositeKey(clean[4]) = CompositeKey(clean[1])
           /\ FirstOfKey(clean) = {1, 3}
    /\ Len(normalized.records) = 2
    /\ normalized.records[1].Product = "LG Fridge X"
    /\ normalized.records[2].Product = "Sony TV"

\* --- monthly seasonality

MonthRows(m) == SelectSeq(data, LAMBDA r : MonthKey(r.Date) = m)
CategoryQty(rows, c) == SumSeq(Quantities(SelectSeq(rows, LAMBDA r : r.Category = c)))
\* the category of the first row whose category reaches the highest summed
\* quantity of the month
FirstTopCategory(rows) ==
    LET best == MaxOf({CategoryQty(rows, rows[i].Category) : i \in 1..Len(rows)})
        first == CHOOSE i \in 1..Len(rows) :
                    /\ CategoryQty(rows, rows[i].Category) = best
                    /\ \A j \in 1..(i - 1) : CategoryQty(rows, rows[j].Category) # best
    IN  rows[first].Category

\* C21: analyzeSeasonality returns one row per distinct month key, ascending
\* by month string, with sales and revenue the sums of quantity and amount
\* over the month's records and topCategory the category with the highest
\* summed quantity, the first-encountered category winning a tie.  The code
\* ranks the entries of a plain object, which lists the categories named by
\* a number before the others, whatever the order they were met in.
C21_SeasonalityRows ==
    views # <<>> =>
        LET rows == views[1].seasonality
        IN  /\ {rows[k].month : k \in 1..Len(rows)}
                  = {MonthKey(data[i].Date) : i \in 1..Len(data)}
            /\ \A k \in 1..(Len(rows) - 1) :
                  CodeUnitCompare(rows[k].month, rows[k + 1].month) < 0
            /\ \A k \in 1..Len(rows) :
                  /\ rows[k].sales = SumSeq(Quantities(MonthRows(rows[k].month)))
                  /\ rows[k].revenue = SumSeq(Amounts(MonthRows(rows[k].month)))
                  /\ rows[k].topCategory = FirstTopCategory(MonthRows(rows[k].month))

\* --- inventory metrics

inventoryMetrics == views[1].inventoryMetrics
DistinctDates == {data[i].Date : i \in 1..Len(data)}
DaysCovered == IF DistinctDates = {} THEN 1 ELSE Cardinality(DistinctDates)
TotalQtyOf(p) == SumSeq(Quantities(RowsOf(p)))
\* n is the least integer that is not below a / b, for b > 0
IsCeilOf(n, a, b) == n * b >= a /\ (n - 1) * b < a
SameQuantity(p) ==
    \A i, j \in 1..Len(RowsOf(p)) : RowsOf(p)[i].Quantity = RowsOf(p)[j].Quantity

\* C22: calculateInventoryMetrics returns one row per product with
\* avgDailySales the product's total quantity over the number of distinct
\* date strings of the data set (at least 1), suggestedOrderQty the ceiling
\* of 30 times that average, reorderPoint the ceiling of safetyStock plus the
\* average times leadTimeDays, reorderPoint >= safetyStock >= 0, safetyStock 0
\* for a product whose records all carry the same quantity, and the rows in
\* descending order of avgDailySales.  A return entered with a negative
\* quantity makes the average negative and the reorder point fall below the
\* safety stock.
C22_InventoryMetrics ==
    views # <<>> =>
        /\ Len(inventoryMetrics) = Cardinality(Products)
        /\ \A k \in 1..Len(inventoryMetrics) :
              LET row == inventoryMetrics[k]
                  totalQty == TotalQtyOf(row.productName)
              IN  /\ row.productName \in Products
                  /\ IsNearest(row.avgDailySales, totalQty * 100, DaysCovered)
                  /\ IsCeilOf(row.suggestedOrderQty, totalQty * 30, DaysCovered)
                  /\ IsCeilOf(row.reorderPoint,
                              row.safetyStock * DaysCovered
                                  + totalQty * views[1].leadTimeDays,
                              DaysCovered)
                  /\ row.reorderPoint >= row.safetyStock
                  /\ row.safetyStock >= 0
                  /\ SameQuantity(row.productName) => row.safetyStock = 0
        /\ \A k \in 1..(Len(inventoryMetrics) - 1) :
              inventoryMetrics[k].avgDailySales >= inventoryMetrics[k + 1].avgDailySales

\* --- the sample sent to the model

sampleData == views[1].sampleData
\* the positions of the list whose share is in (low, high]; high = 0: no upper limit
Positions(low, high) ==
    {i \in 1..Len(data) :
        /\ (low > 0 => ~PctLE(data[i].cumulativeShare, low))
        /\ (high > 0 => PctLE(data[i].cumulativeShare, high))}
FirstOf(S, n) == {i \in S : Cardinality({j \in S : j < i}) < n}
LastOf(S, n) == {i \in S : Cardinality({j \in S : j > i}) < n}
Sampled ==
    FirstOf(Positions(0, 80), 30) \cup FirstOf(Positions(80, 95), 5)
        \cup LastOf(Positions(95, 0), 5)

GlobalRows == analysisResult[1].performanceMetrics
ShownRows == filteredDataV2.performanceMetrics
GlobalClassOf(p) ==
    (CHOOSE g \in {GlobalRows[i] : i \in 1..Len(GlobalRows)} : g.productName = p).abcClass
FilteredOf(p) == SelectSeq(filteredRecords, LAMBDA r : r.Product = p)

\* C24: in the filtered view of the V2 dashboard every product row carries
\* the ABC class of the unfiltered analysis, while its quantity and revenue
\* are those of the filtered records; with the ABC filter at a class every
\* row shown has that class, and the decisions shown are exactly the AI
\* decisions of the products of the rows shown.
C24_GlobalClassKept ==
    LET shown == ShownRows
    IN  /\ \A k \in 1..Len(shown) :
              /\ shown[k].abcClass = GlobalClassOf(shown[k].productName)
              /\ shown[k].totalQty = SumSeq(Quantities(FilteredOf(shown[k].productName)))
              /\ shown[k].totalAmount = SumSeq(Amounts(FilteredOf(shown[k].productName)))
              /\ filterABC # AllFilter => shown[k].abcClass = filterABC
        /\ filteredDataV2.decisions =
              SelectSeq(analysisResult[1].decisions,
                        LAMBDA x : \E k \in 1..Len(shown) :
                                      shown[k].productName = x.productName)

\* a class A product shown alone under a category filter, where the
\* analysis of the filtered records would put it in another class
C24_Witness ==
    /\ filterABC = ClassA
    /\ filterCategory # AllFilter
    /\ Len(ShownRows) = 1
    /\ AnalyzePerformance(filteredRecords)[1].abcClass # ClassA
    /\ Len(filteredDataV2.decisions) = 1

\* --- conservation across the views

TotalQuantity == SumSeq(Quantities(data))
SumTotalAmount(rows) == SumSeq([k \in 1..Len(rows) |-> rows[k].totalAmount])
SumTotalQty(rows) == SumSeq([k \in 1..Len(rows) |-> rows[k].totalQty])
SumRevenue(rows) == SumSeq([k \in 1..Len(rows) |-> rows[k].revenue])
SumOrders(rows) == SumSeq([k \in 1..Len(rows) |-> rows[k].orders])

\* C25: for every record set the totalAmount of the performance rows and the
\* revenue of the seasonality, price band, brand and daily trend rows each
\* sum to the sum of Amount over the records; the orders of the daily trend
\* rows sum to the number of records and the totalQty of the products to the
\* sum of Quantity over the records.
C25_Conservation ==
    views # <<>> =>
        /\ SumTotalAmount(views[1].performanceMetrics) = TotalAmount
        /\ SumRevenue(views[1].seasonality) = TotalAmount
        /\ SumRevenue(views[1].priceBands) = TotalAmount
        /\ SumRevenue(views[1].brandDistribution) = TotalAmount
        /\ SumRevenue(views[1].dailyTrend) = TotalAmount
        /\ SumOrders(views[1].dailyTrend) = Len(data)
        /\ SumTotalQty(views[1].performanceMetrics) = TotalQuantity

\* three records of two products on two days, one of them a refund and one
\* a sale of two units
C25_Witness ==
    /\ views # <<>> /\ Len(data) = 3
    /\ Len(views[1].performanceMetrics) = 2
    /\ Len(views[1].dailyTrend) = 2
    /\ Len(views[1].priceBands) = 2
    /\ \E i \in 1..3 : data[i].Amount < 0
    /\ \E i \in 1..3 : data[i].Quantity = 2

\* --- the classes along the ranking

NonNegativeAmounts == \A i \in 1..Len(data) : data[i].Amount >= 0
ClassRank(c) == IF c = ClassA THEN 1 ELSE IF c = ClassB THEN 2 ELSE 3
\* a / b <= c / d for positive b and d
FractionLE(x, y) ==
    LET a == Lowest(x.num, x.den)
        b == Lowest(y.num, y.den)
    IN  IF x.den = y.den THEN x.num <= y.num ELSE a[1] * b[2] <= b[1] * a[2]

\* C26: for a record set with non-negative amounts, in the list returned by
\* analyzePerformance no row of class A follows a row of class B or C, no
\* row of class B follows a row of class C, and cumulativeShare does not
\* decrease from one row to the next.
C26_ClassesMonotone ==
    (views # <<>> /\ NonNegativeAmounts) =>
        \A k \in 1..(Len(Performance) - 1) :
            /\ ClassRank(Performance[k].abcClass) <= ClassRank(Performance[k + 1].abcClass)
            /\ FractionLE(Performance[k].cumulativeShare, Performance[k + 1].cumulativeShare)

\* three products in the classes A, B and C, in that order
C26_Witness ==
    /\ views # <<>> /\ NonNegativeAmounts /\ Len(Performance) = 3
    /\ Performance[1].abcClass = ClassA
    /\ Performance[2].abcClass = ClassB
    /\ Performance[3].abcClass = ClassC

\* --- the result on display and the records held

\* C27: whenever analysisResult is non-null it was computed from the record
\* set held in rawRecords, under every interleaving of handleDataLoaded
\* invocations.  A second invocation that starts while the first awaits the
\* AI call replaces rawRecords, and the first then stores its own result.
C27_ResultFromRawRecords ==
    analysisResult # <<>> =>
        LET local == LocalAnalytics(rawRecords)
        IN  /\ analysisResult[1].performanceMetrics = local.performanceMetrics
            /\ analysisResult[1].seasonality = local.seasonality
            /\ analysisResult[1].priceBands = local.priceBands
            /\ analysisResult[1].brandDistribution = local.brandDistribution
            /\ analysisResult[1].dailyTrend = local.dailyTrend

\* --- the load lifecycle

\* handleDataLoaded has just returned in run i
Completes(i) ==
    /\ i <= Len(runs) /\ runs[i].pc # "done"
    /\ runs'[i].pc = "done" /\ runs'[i].outcome # "aborted"
OthersInFlight(i) == \E j \in 1..Len(runs') : j # i /\ runs'[j].pc = "awaitAI"

\* C28: starting a load sets isLoading and clears error and analysisResult;
\* when an invocation of handleDataLoaded completes with no other invocation
\* in flight, isLoading is false and exactly one of analysisResult and error
\* is non-null, the result on success and the error on a failure; a run that
\* raised an error never sets analysisResult.  An invocation that failed
\* while another one was in flight leaves its error behind, and the other
\* one then stores its result next to it.
C28_LoadLifecycle ==
    [][\A i \in 1..Len(runs') :
          /\ Entered(i) => analysisResult' = <<>>
          /\ (Entered(i) /\ runs'[i].pc = "awaitAI") => (isLoading' /\ error' = NULL)
          /\ (Completes(i) /\ ~OthersInFlight(i)) =>
                /\ ~isLoading'
                /\ (analysisResult' # <<>>) <=> (error' = NULL)
                /\ (analysisResult' # <<>>) <=> (runs'[i].outcome = "ok")
          /\ (Completes(i) /\ runs'[i].outcome # "ok") =>
                (analysisResult' = <<>> \/ analysisResult' = analysisResult)]_vars

\* --- products with a row without a date

UndatedProducts == {p \in Products : \E i \in 1..Len(RowsOf(p)) : RowsOf(p)[i].Date = UnknownDate}

\* C29: a product with at least one record dated 'Unknown' is never flagged
\* by detectSlowMoving, however old its dated sales are; every alert that is
\* returned has a lastSaleDate that is a date of one of the product's own
\* records and is not later than the dataset's last observed date.
C29_UndatedNeverFlagged ==
    views # <<>> =>
        \A k \in 1..Len(alerts) :
            /\ alerts[k].productName \notin UndatedProducts
            /\ \E i \in 1..Len(data) :
                  /\ data[i].Product = alerts[k].productName
                  /\ data[i].Date = alerts[k].lastSaleDate
            /\ ~ParseDate(alerts[k].lastSaleDate).nan
            /\ ParseDate(alerts[k].lastSaleDate).days <= MaxOf(DatedDays(data))

\* a product whose dated sale is 90 days old and that has a row without a
\* date is passed over at the default threshold
C29_Witness ==
    /\ views # <<>> /\ alerts = <<>> /\ thresholdDays = DefaultThresholdDays
    /\ \E p \in UndatedProducts :
          /\ DatedDays(RowsOf(p)) # {}
          /\ MaxOf(DatedDays(data)) - MaxOf(DatedDays(RowsOf(p))) = 90

\* --- the chat panel

InFlight(c) == {i \in 1..Len(c.requests) : c.requests[i].status = "pending"}
Sent == Len(chat.requests') = Len(chat.requests) + 1
Settled(i, status) ==
    /\ i <= Len(chat.requests) /\ chat.requests[i].status = "pending"
    /\ chat.requests'[i].status = status

\* C30: at most one askSalesQuestion request is in flight at any time:
\* handleSend does nothing when the question is empty or while isLoading is
\* true, isLoading is true from the moment a request is sent until it
\* settles and false afterwards, the user's message is appended before the
\* request is sent, and an assistant message is appended only when the
\* request succeeds; a failed request sets the error and appends nothing.
C30_SingleRequest ==
    [][/\ Cardinality(InFlight(chat')) <= 1
       /\ chat.isLoading' <=> InFlight(chat') # {}
       /\ Sent =>
             /\ ~chat.isLoading
             /\ Last(chat.requests').question # ""
             /\ chat.messages' =
                   Append(chat.messages,
                          ChatMessage("user", Last(chat.requests').question))
       /\ (chat.requests' = chat.requests) => chat.messages' = chat.messages
       /\ \A i \in 1..Len(chat.requests) :
             /\ Settled(i, "ok") =>
                   /\ Len(chat.messages') = Len(chat.messages) + 1
                   /\ Last(chat.messages').role = "assistant"
                   /\ SubSeq(chat.messages', 1, Len(chat.messages)) = chat.messages
             /\ Settled(i, "failed") =>
                   /\ chat.messages' = chat.messages
                   /\ chat.error' # NULL]_vars

\* a third request is in flight after one that succeeded and one that failed
C30_Witness ==
    /\ Len(chat.requests) = 3
    /\ chat.requests[1].status = "ok"
    /\ chat.requests[2].status = "failed"
    /\ chat.requests[3].status = "pending"
    /\ chat.isLoading
    /\ Len(chat.messages) = 4

====
